---------------------------- MODULE Spec2Model ----------------------------
(***************************************************************************)
(* A model of the arb-seeker pipeline: the validation/dedup gate           *)
(* (ArbEngine), the Betfair session manager (BetfairAuth) and the JSON-RPC *)
(* gateway (BetfairService.makeRequest), run by the concurrently scheduled *)
(* scans over one shared Deno KV store; the scans, the detectors, the      *)
(* service calls findMarket and placeLayBet, and the functions of utils.ts.*)
(*                                                                         *)
(* Units.  Time advances in ticks of TickSeconds; a KV entry carries the   *)
(* number of ticks it still has to live (0: absent).  Profit margins are   *)
(* basis points (0.02 = 200), odds are hundredths (2.50 = 250), stakes are *)
(* whole dollars and liquidity is cents, so stake * odds is cents.         *)
(***************************************************************************)
EXTENDS Integers, Sequences, FiniteSets

VARIABLES
    kv,        \* the Deno KV store: processed markers and the session record
    gate,      \* per scan: its processArbOpportunity call
    accepted,  \* history: per id, the retention windows of the accepted calls
    auth,      \* per scan: its makeRequest / getSessionToken call
    issued,    \* number of tokens the login endpoint has issued
    hist,      \* history of the session store: last write, removals, failures
    marked,    \* history: the ids a marker has ever been written for
    scan,      \* per scan: its position in scanSports
    det,       \* one detector call: its arguments, the detector, its result
    svc,       \* per scan: its findMarket / placeLayBet call
    util       \* one call of a function of utils.ts or of findMatchingRunner

vars ==
    <<kv, gate, accepted, auth, issued, hist, marked, scan, det, svc, util>>

---------------------------------------------------------------------------
(* Bounds and program constants *)

\* Sends one top-level makeRequest call may make before the model stops it.
MaxSends == 3

\* Tokens the login endpoint issues before the model lets only failures through.
MaxTokens == 3

TickSeconds == 60 * 60

MIN_PROFIT_MARGIN == 200

KV_EXPIRY_SECONDS == 2 * 60 * 60

SESSION_EXPIRE_IN_MS == 14400 * 1000

KvExpiryTicks == KV_EXPIRY_SECONDS \div TickSeconds

SessionTicks == (SESSION_EXPIRE_IN_MS \div 1000) \div TickSeconds

\* The scans that run concurrently: the Tier 1 and the Tier 2 cron jobs.
Scans == {"tier1", "tier2"}

Ids == {"ev1_sportsbet_home", "ev2_tab_home"}

Stakes == {281}

Arbs ==
    [id : Ids, profitMargin : {199, 200}, bookieOdds : {250},
     layLiquidity : {70249, 70250}, suggestedStake : {0}]

NoArb ==
    [id |-> "", profitMargin |-> 0, bookieOdds |-> 0, layLiquidity |-> 0,
     suggestedStake |-> 0]

NoResult == [processed |-> FALSE, reason |-> "pending"]

Max(S) == CHOOSE x \in S : \A y \in S : y <= x

Range(s) == {s[i] : i \in DOMAIN s}

---------------------------------------------------------------------------
(* The KV store *)

\* kv.get(['processed', id]).value !== null
isProcessedNever(id) == FALSE

isProcessed(id) == kv.processed[id] > 0

\* kv.set(['processed', arb.id], ..., {expireIn: KV_EXPIRY_SECONDS * 1000})
markProcessedShort(store, id) ==
    [store EXCEPT !.processed[id] = KvExpiryTicks - 1]

markProcessed(store, id) == [store EXCEPT !.processed[id] = KvExpiryTicks]

Dec(n) == IF n > 0 THEN n - 1 ELSE 0

\* Entries whose time to live has run out are gone.
Expire(store) ==
    [processed |-> [i \in DOMAIN store.processed |-> Dec(store.processed[i])],
     session |->
        IF store.session.ttl <= 1
        THEN [token |-> 0, ttl |-> 0]
        ELSE [store.session EXCEPT !.ttl = @ - 1]]

RECURSIVE Aged(_)
Aged(s) ==
    IF s = <<>> THEN <<>>
    ELSE IF Head(s) <= 1 THEN Aged(Tail(s))
    ELSE <<Head(s) - 1>> \o Aged(Tail(s))

---------------------------------------------------------------------------
(* ArbEngine: the validation/dedup gate *)

\* A margin test that also turns away a margin of exactly the minimum.
validateArbAboveMinimum(arb) ==
    IF arb.profitMargin <= MIN_PROFIT_MARGIN
    THEN [valid |-> FALSE, reason |-> "Profit margin is below minimum"]
    ELSE IF arb.layLiquidity < arb.suggestedStake * arb.bookieOdds
    THEN [valid |-> FALSE, reason |-> "Insufficient liquidity"]
    ELSE [valid |-> TRUE, reason |-> ""]

\* A liquidity test that also turns away liquidity of exactly the requirement.
validateArbSpareLiquidity(arb) ==
    IF arb.profitMargin < MIN_PROFIT_MARGIN
    THEN [valid |-> FALSE, reason |-> "Profit margin is below minimum"]
    ELSE IF arb.layLiquidity <= arb.suggestedStake * arb.bookieOdds
    THEN [valid |-> FALSE, reason |-> "Insufficient liquidity"]
    ELSE [valid |-> TRUE, reason |-> ""]

\* A validation that looks at the liquidity before the margin.
validateArbLiquidityFirst(arb) ==
    IF arb.layLiquidity < arb.suggestedStake * arb.bookieOdds
    THEN [valid |-> FALSE, reason |-> "Insufficient liquidity"]
    ELSE IF arb.profitMargin < MIN_PROFIT_MARGIN
    THEN [valid |-> FALSE, reason |-> "Profit margin is below minimum"]
    ELSE [valid |-> TRUE, reason |-> ""]

validateArb(arb) ==
    IF arb.profitMargin < MIN_PROFIT_MARGIN
    THEN [valid |-> FALSE, reason |-> "Profit margin is below minimum"]
    ELSE IF arb.layLiquidity < arb.suggestedStake * arb.bookieOdds
    THEN [valid |-> FALSE, reason |-> "Insufficient liquidity"]
    ELSE [valid |-> TRUE, reason |-> ""]

GateIdle ==
    [pc |-> "idle", arb |-> NoArb, result |-> NoResult,
     priorTtl |-> 0, priorLive |-> FALSE, fresh |-> FALSE, again |-> FALSE,
     raced |-> FALSE, alerted |-> FALSE, sent |-> FALSE, built |-> 0,
     turned |-> "", unsent |-> "", window |-> 0]

\* main.ts processArbOpportunity: the stake is assigned, processArb is called.
ProcessArbOpportunity(p) ==
    /\ gate[p].pc = "idle"
    /\ \E a \in Arbs, s \in Stakes :
          gate' = [gate EXCEPT
                     ![p] = [GateIdle EXCEPT
                               !.pc = "isProcessed",
                               !.arb = [a EXCEPT !.suggestedStake = s],
                               !.built = a.suggestedStake,
                               !.turned = gate[p].turned,
                               !.unsent = gate[p].unsent,
                               !.window = gate[p].window,
                               !.priorTtl =
                                   Max(Range(accepted[a.id]) \cup {0})]]
    /\ UNCHANGED <<kv, accepted, auth, issued, hist, marked, scan, det,
                   svc, util>>

\* The other calls that wait, between their read and their write, for this id.
Racing(p, id) ==
    {q \in Scans \ {p} : gate[q].pc = "markProcessed" /\ gate[q].arb.id = id}

\* A processArb that also marks the opportunities its validation turns away.
IsProcessedMarkingRejected(p) ==
    /\ gate[p].pc = "isProcessed"
    /\ LET g   == gate[p]
           seen == [g EXCEPT !.priorLive = (g.priorTtl > 0),
                             !.fresh = (accepted[g.arb.id] = <<>>),
                             !.again = (g.arb.id \in marked)]
           v   == validateArb(g.arb)
       IN  IF isProcessed(g.arb.id)
           THEN gate' = [gate EXCEPT
                   ![p] = [seen EXCEPT
                             !.pc = "done", !.turned = "",
                             !.result = [processed |-> FALSE,
                                         reason |-> "Already processed"]]]
           ELSE IF ~v.valid
           THEN gate' = [gate EXCEPT
                   ![p] = [seen EXCEPT
                             !.pc = "done", !.turned = g.arb.id,
                             !.result = [processed |-> FALSE,
                                         reason |-> v.reason]]]
           ELSE gate' = [q \in Scans |->
                   IF q = p
                   THEN [seen EXCEPT !.pc = "markProcessed",
                                     !.raced = (Racing(p, g.arb.id) # {})]
                   ELSE IF q \in Racing(p, g.arb.id)
                   THEN [gate[q] EXCEPT !.raced = TRUE]
                   ELSE gate[q]]
    /\ kv' = IF ~isProcessed(gate[p].arb.id)
                /\ ~validateArb(gate[p].arb).valid
             THEN markProcessed(kv, gate[p].arb.id)
             ELSE kv
    /\ UNCHANGED <<accepted, auth, issued, hist, marked, scan, det,
                   svc, util>>

\* processArb up to its write: the kv.get of isProcessed, then validateArb.
IsProcessed(p) ==
    /\ gate[p].pc = "isProcessed"
    /\ LET g   == gate[p]
           seen == [g EXCEPT !.priorLive = (g.priorTtl > 0),
                             !.fresh = (accepted[g.arb.id] = <<>>),
                             !.again = (g.arb.id \in marked)]
           v   == validateArb(g.arb)
       IN  IF isProcessed(g.arb.id)
           THEN gate' = [gate EXCEPT
                   ![p] = [seen EXCEPT
                             !.pc = "done", !.turned = "",
                             !.result = [processed |-> FALSE,
                                         reason |-> "Already processed"]]]
           ELSE IF ~v.valid
           THEN gate' = [gate EXCEPT
                   ![p] = [seen EXCEPT
                             !.pc = "done", !.turned = g.arb.id,
                             !.result = [processed |-> FALSE,
                                         reason |-> v.reason]]]
           ELSE gate' = [q \in Scans |->
                   IF q = p
                   THEN [seen EXCEPT !.pc = "markProcessed",
                                     !.raced = (Racing(p, g.arb.id) # {})]
                   ELSE IF q \in Racing(p, g.arb.id)
                   THEN [gate[q] EXCEPT !.raced = TRUE]
                   ELSE gate[q]]
    /\ UNCHANGED <<kv, accepted, auth, issued, hist, marked, scan, det,
                   svc, util>>

\* A write that first looks again: what an atomic check-and-set would do.
MarkProcessedChecked(p) ==
    /\ gate[p].pc = "markProcessed"
    /\ IF isProcessed(gate[p].arb.id)
       THEN /\ gate' = [gate EXCEPT
                          ![p].pc = "done",
                          ![p].result = [processed |-> FALSE,
                                         reason |-> "Already processed"]]
            /\ UNCHANGED <<kv, accepted, marked>>
       ELSE /\ kv' = markProcessed(kv, gate[p].arb.id)
            /\ accepted' = [accepted EXCEPT
                              ![gate[p].arb.id] = Append(@, KvExpiryTicks)]
            /\ gate' = [gate EXCEPT
                          ![p].pc = "notify",
                          ![p].unsent = "", ![p].window = KvExpiryTicks,
                          ![p].result = [processed |-> TRUE, reason |-> ""]]
            /\ marked' = marked \cup {gate[p].arb.id}
    /\ UNCHANGED <<auth, issued, hist, scan, det, svc, util>>

\* processArb's write: markProcessed lands, processArb returns processed:true.
MarkProcessed(p) ==
    /\ gate[p].pc = "markProcessed"
    /\ kv' = markProcessed(kv, gate[p].arb.id)
    /\ accepted' = [accepted EXCEPT
                      ![gate[p].arb.id] = Append(@, KvExpiryTicks)]
    /\ gate' = [gate EXCEPT
                  ![p].pc = "notify",
                  ![p].unsent = "", ![p].window = KvExpiryTicks,
                  ![p].result = [processed |-> TRUE, reason |-> ""]]
    /\ marked' = marked \cup {gate[p].arb.id}
    /\ UNCHANGED <<auth, issued, hist, scan, det, svc, util>>

\* The notifier behind the automation main.ts keeps commented out: outside
\* mock mode placeLayBet asks for the funds and places the order first.
SendTelegramAlertAfterAutoLay(p) ==
    /\ gate[p].pc = "notify"
    /\ \E sent \in BOOLEAN :
          gate' = [gate EXCEPT ![p].pc = "done", ![p].alerted = TRUE,
                               ![p].sent = sent, ![p].turned = "",
                               ![p].unsent =
                                  IF sent \/ gate[p].window = 0
                                  THEN "" ELSE gate[p].arb.id,
                               ![p].window = IF sent THEN 0 ELSE @]
    /\ scan' = [scan EXCEPT
                  ![p].req = IF scan[p].mockMode THEN @
                             ELSE {"getAccountFunds", "placeOrders"}]
    /\ UNCHANGED <<kv, accepted, auth, issued, hist, marked, det, svc, util>>

\* A notifier that is also called when processArb has turned the
\* opportunity away.
SendTelegramAlertAlways(p) ==
    /\ \/ gate[p].pc = "notify"
       \/ gate[p].pc = "done" /\ ~gate[p].alerted
    /\ \E sent \in BOOLEAN :
          gate' = [gate EXCEPT ![p].pc = "done", ![p].alerted = TRUE,
                               ![p].sent = sent, ![p].turned = "",
                               ![p].unsent =
                                  IF sent \/ gate[p].window = 0
                                  THEN "" ELSE gate[p].arb.id,
                               ![p].window = IF sent THEN 0 ELSE @]
    /\ UNCHANGED <<kv, accepted, auth, issued, hist, marked, scan, det,
                   svc, util>>

\* A notifier whose failure is made good: the marker is taken out again, so
\* that the next detection of the id is let through.
SendTelegramAlertCompensated(p) ==
    /\ gate[p].pc = "notify"
    /\ \E sent \in BOOLEAN :
          /\ gate' = [gate EXCEPT ![p].pc = "done", ![p].alerted = TRUE,
                                  ![p].sent = sent, ![p].turned = "",
                                  ![p].unsent =
                                     IF sent \/ gate[p].window = 0
                                     THEN "" ELSE gate[p].arb.id,
                                  ![p].window = IF sent THEN 0 ELSE @]
          /\ kv' = IF sent THEN kv
                   ELSE [kv EXCEPT !.processed[gate[p].arb.id] = 0]
    /\ UNCHANGED <<accepted, auth, issued, hist, marked, scan, det,
                   svc, util>>

\* main.ts: the accepted opportunity goes to the notifier, whatever it answers.
SendTelegramAlert(p) ==
    /\ gate[p].pc = "notify"
    /\ \E sent \in BOOLEAN :
          gate' = [gate EXCEPT ![p].pc = "done", ![p].alerted = TRUE,
                               ![p].sent = sent, ![p].turned = "",
                               ![p].unsent =
                                  IF sent \/ gate[p].window = 0
                                  THEN "" ELSE gate[p].arb.id,
                               ![p].window = IF sent THEN 0 ELSE @]
    /\ UNCHANGED <<kv, accepted, auth, issued, hist, marked, scan, det,
                   svc, util>>

\* processArbOpportunity has returned; the scan goes on to its next opportunity.
GateReturn(p) ==
    /\ gate[p].pc = "done"
    /\ gate' = [gate EXCEPT
                  ![p] = [GateIdle EXCEPT !.turned = gate[p].turned,
                                          !.unsent = gate[p].unsent,
                                          !.window = gate[p].window]]
    /\ UNCHANGED <<kv, accepted, auth, issued, hist, marked, scan, det,
                   svc, util>>

---------------------------------------------------------------------------
(* BetfairAuth: the session manager *)

NoSession == [token |-> 0, ttl |-> 0]

\* if (cached.value): a stored token is returned as it is.
CacheHitNever(rec) == FALSE

\* The safety margin of the design document: one hour before expiry.
SafetyMarginTicks == (60 * 60) \div TickSeconds

CacheHitOutsideMargin(rec) == rec.token # 0 /\ rec.ttl > SafetyMarginTicks

CacheHit(rec) == rec.token # 0

\* kv.set(["betfair_session"], token, {expireIn: 14400 * 1000})
setSessionIfAbsent(store, p, token) ==
    IF store.session.token # 0 THEN store
    ELSE [store EXCEPT !.session =
              [token |-> token, ttl |-> SessionTicks]]

setSession(store, p, token) ==
    [store EXCEPT !.session = [token |-> token, ttl |-> SessionTicks]]

\* kv.delete(["betfair_session"])
deleteSessionKept(store) == store

deleteSession(store) == [store EXCEPT !.session = NoSession]

Responses ==
    [kind : {"httpError", "INVALID_SESSION", "otherError", "noResult"},
     value : {"none"}]
    \cup [kind : {"result"}, value : {"r1", "r2"}]

AuthIdle ==
    [pc |-> "idle", kind |-> "none", ret |-> "none", token |-> 0,
     sends |-> 0, refreshes |-> 0, responses |-> <<>>,
     outcome |-> "none", value |-> "none",
     gst |-> "none", hitTtl |-> 0, hitToken |-> 0,
     didLogin |-> FALSE, didSet |-> FALSE, quiet |-> FALSE,
     afterFail |-> FALSE, afterRefresh |-> FALSE,
     discarded |-> 0, issuedAtDelete |-> 0,
     rejected |-> 0, issuedAtResponse |-> 0]

\* What is remembered of a getSessionToken invocation, forgotten.
Forget(rec) ==
    [rec EXCEPT !.gst = "none", !.hitTtl = 0, !.hitToken = 0,
                !.didLogin = FALSE, !.didSet = FALSE, !.quiet = FALSE,
                !.afterFail = FALSE, !.afterRefresh = FALSE,
                !.discarded = 0, !.issuedAtDelete = 0]

\* A getSessionToken invocation begins: its kv.get is issued.
Invoke(rec, ret, afterRefresh) ==
    [rec EXCEPT !.pc = "getCached", !.ret = ret, !.gst = "running",
                !.hitTtl = 0, !.hitToken = 0,
                !.didLogin = FALSE, !.didSet = FALSE, !.quiet = FALSE,
                !.afterFail = FALSE, !.afterRefresh = afterRefresh]

\* getSessionToken returns token to the code that called it.
Returned(rec, token) ==
    LET r == [rec EXCEPT !.token = token, !.gst = "returned", !.quiet = FALSE]
    IN  CASE rec.ret = "send"  -> [r EXCEPT !.pc = "send"]
          [] rec.ret = "retry" -> [r EXCEPT !.pc = "retry"]
          [] OTHER -> [r EXCEPT !.pc = "done", !.outcome = "token"]

\* A scan starts a gateway call: makeRequest asks for the session token.
MakeRequest(p) ==
    /\ auth[p].pc = "idle"
    /\ auth' = [auth EXCEPT
                  ![p] = Invoke([AuthIdle EXCEPT !.kind = "makeRequest"],
                                "send", FALSE)]
    /\ UNCHANGED <<kv, gate, accepted, issued, hist, marked, scan, det,
                   svc, util>>

\* getSessionToken called on its own, as diagnose.ts does.
GetSessionToken(p) ==
    /\ auth[p].pc = "idle"
    /\ auth' = [auth EXCEPT
                  ![p] = Invoke([AuthIdle EXCEPT !.kind = "getSessionToken"],
                                "return", FALSE)]
    /\ UNCHANGED <<kv, gate, accepted, issued, hist, marked, scan, det,
                   svc, util>>

\* 1. Check Cache
GetCached(p) ==
    /\ auth[p].pc = "getCached"
    /\ LET rec  == kv.session
           seen == [auth[p] EXCEPT
                      !.hitTtl = rec.ttl, !.hitToken = rec.token,
                      !.quiet = TRUE, !.afterFail = hist.failQuiet]
       IN  auth' = [auth EXCEPT
                      ![p] = IF CacheHit(rec)
                             THEN Returned(seen, rec.token)
                             ELSE [seen EXCEPT !.pc = "login"]]
    /\ UNCHANGED <<kv, gate, accepted, issued, hist, marked, scan, det,
                   svc, util>>

\* 4. Handle Response: a body that is not JSON, or a status that is not SUCCESS.
LoginThrowsAfterSet(p) ==
    /\ auth[p].pc = "login"
    /\ auth' = [auth EXCEPT
                  ![p].pc = "done", ![p].gst = "threw",
                  ![p].didLogin = TRUE, ![p].didSet = TRUE,
                  ![p].quiet = FALSE, ![p].outcome = "error"]
    /\ kv' = setSession(kv, p, issued)
    /\ hist' = [hist EXCEPT !.failQuiet = auth[p].quiet]
    /\ UNCHANGED <<gate, accepted, issued, marked, scan, det, svc, util>>

\* A refresh whose failed login is passed over: the request is sent again.
LoginThrowsSwallowed(p) ==
    /\ auth[p].pc = "login"
    /\ auth' = [auth EXCEPT
                  ![p] = IF auth[p].afterRefresh
                         THEN [auth[p] EXCEPT
                                 !.pc = "retry", !.gst = "threw",
                                 !.didLogin = TRUE, !.quiet = FALSE]
                         ELSE [auth[p] EXCEPT
                                 !.pc = "done", !.gst = "threw",
                                 !.didLogin = TRUE, !.quiet = FALSE,
                                 !.outcome = "error"]]
    /\ hist' = [hist EXCEPT !.failQuiet = auth[p].quiet]
    /\ UNCHANGED <<kv, gate, accepted, issued, marked, scan, det, svc, util>>

LoginThrows(p) ==
    /\ auth[p].pc = "login"
    /\ auth' = [auth EXCEPT
                  ![p].pc = "done", ![p].gst = "threw",
                  ![p].didLogin = TRUE, ![p].quiet = FALSE,
                  ![p].outcome = "error"]
    /\ hist' = [hist EXCEPT !.failQuiet = auth[p].quiet]
    /\ UNCHANGED <<kv, gate, accepted, issued, marked, scan, det, svc, util>>

\* 3. Send Request: the login endpoint answers.
Login(p) ==
    \/ /\ auth[p].pc = "login"
       /\ issued < MaxTokens
       /\ issued' = issued + 1
       /\ auth' = [auth EXCEPT
                     ![p].pc = "setSession", ![p].didLogin = TRUE,
                     ![p].quiet = FALSE, ![p].token = issued + 1]
       /\ UNCHANGED <<kv, gate, accepted, hist, marked, scan, det, svc, util>>
    \/ \E body \in {"FAIL", "html"} : LoginThrows(p)

\* 5. Cache Token
SetSession(p) ==
    /\ auth[p].pc = "setSession"
    /\ kv' = setSession(kv, p, auth[p].token)
    /\ hist' = [lastSet |-> auth[p].token, removed |-> FALSE,
                failQuiet |-> FALSE]
    /\ auth' = [q \in Scans |->
                  IF q = p
                  THEN Returned([auth[p] EXCEPT !.didSet = TRUE], auth[p].token)
                  ELSE [auth[q] EXCEPT !.quiet = FALSE]]
    /\ UNCHANGED <<gate, accepted, issued, marked, scan, det, svc, util>>

\* refreshSession: Clear existing session, then Get new token.
DeleteSession(p) ==
    /\ auth[p].pc = "delete"
    /\ kv' = deleteSession(kv)
    /\ hist' = [hist EXCEPT !.removed = TRUE]
    /\ auth' = [auth EXCEPT
                  ![p] = Invoke([auth[p] EXCEPT
                                   !.discarded = kv.session.token,
                                   !.issuedAtDelete = issued],
                                "retry", TRUE)]
    /\ UNCHANGED <<gate, accepted, issued, marked, scan, det, svc, util>>

---------------------------------------------------------------------------
(* BetfairService.makeRequest: the gateway *)

\* Handle INVALID_SESSION: refreshSession, then makeRequest again.
OnInvalidSessionNoRefresh(rec) == [rec EXCEPT !.pc = "retry"]

\* A gateway that sends the request again at once, with the token it holds.
OnInvalidSessionResend(rec) == [rec EXCEPT !.pc = "send", !.refreshes = @ + 1]

OnInvalidSession(rec) == [rec EXCEPT !.pc = "delete", !.refreshes = @ + 1]

\* A gateway that also refreshes and retries on an error that is not
\* INVALID_SESSION.
HandleRetryingErrors(rec, resp) ==
    LET r == [Forget(rec) EXCEPT
                !.sends = @ + 1, !.responses = Append(@, resp)]
    IN  CASE resp.kind \in {"INVALID_SESSION", "otherError"} ->
               OnInvalidSession(r)
          [] resp.kind \in {"httpError", "noResult"} ->
               [r EXCEPT !.pc = "done", !.outcome = "error"]
          [] OTHER ->
               [r EXCEPT !.pc = "done", !.outcome = "result",
                         !.value = resp.value]

\* What makeRequest does with one response.
Handle(rec, resp) ==
    LET r == [Forget(rec) EXCEPT
                !.sends = @ + 1, !.responses = Append(@, resp)]
    IN  CASE resp.kind = "httpError" ->
               [r EXCEPT !.pc = "done", !.outcome = "error"]
          [] resp.kind = "INVALID_SESSION" -> OnInvalidSession(r)
          [] resp.kind = "otherError" ->
               [r EXCEPT !.pc = "done", !.outcome = "error"]
          [] resp.kind = "noResult" ->
               [r EXCEPT !.pc = "done", !.outcome = "error"]
          [] OTHER ->
               [r EXCEPT !.pc = "done", !.outcome = "result",
                         !.value = resp.value]

\* fetch(url, ...) with the token in X-Authentication, and its response.
Send(p) ==
    /\ auth[p].pc = "send"
    /\ auth[p].sends < MaxSends
    /\ \E resp \in Responses : auth' = [auth EXCEPT ![p] = Handle(auth[p], resp)]
    /\ UNCHANGED <<kv, gate, accepted, issued, hist, marked, scan, det,
                   svc, util>>

\* Send, with the rejected token and the number of logins completed so far
\* kept from an INVALID_SESSION response until the next response.
SendRecorded(p) ==
    /\ auth[p].pc = "send"
    /\ auth[p].sends < MaxSends
    /\ \E resp \in Responses :
          auth' = [auth EXCEPT
                     ![p] = [Handle(auth[p], resp) EXCEPT
                               !.rejected =
                                  IF resp.kind = "INVALID_SESSION"
                                  THEN auth[p].token ELSE 0,
                               !.issuedAtResponse =
                                  IF resp.kind = "INVALID_SESSION"
                                  THEN issued ELSE 0]]
    /\ UNCHANGED <<kv, gate, accepted, issued, hist, marked, scan, det,
                   svc, util>>

\* return this.makeRequest(url, method, params): the call starts over.
Retry(p) ==
    /\ auth[p].pc = "retry"
    /\ auth' = [auth EXCEPT ![p] = Invoke(Forget(auth[p]), "send", FALSE)]
    /\ UNCHANGED <<kv, gate, accepted, issued, hist, marked, scan, det,
                   svc, util>>

\* The call has ended, with a result or an error; the scan goes on.
AuthReturn(p) ==
    /\ auth[p].pc = "done"
    /\ auth' = [auth EXCEPT ![p] = AuthIdle]
    /\ UNCHANGED <<kv, gate, accepted, issued, hist, marked, scan, det,
                   svc, util>>

---------------------------------------------------------------------------
(* The detectors: arbDetector.ts and utils.ts *)

\* Team and runner names are sequences of lower-case words.
HomeTeam == <<"sydney", "kings">>

AwayTeam == <<"perth", "wildcats">>

RECURSIVE Join(_)
Join(name) ==
    IF name = <<>> THEN ""
    ELSE IF Len(name) = 1 THEN name[1]
    ELSE name[1] \o " " \o Join(Tail(name))

Min(S) == CHOOSE x \in S : \A y \in S : x <= y

\* a.includes(b)
Includes(a, b) ==
    \E i \in 1..(Len(a) + 1) :
        /\ i + Len(b) - 1 <= Len(a)
        /\ SubSeq(a, i, i + Len(b) - 1) = b

NoOpportunity ==
    [id |-> "", bookie |-> "", bookieOdds |-> 0, suggestedStake |-> 0,
     layOdds |-> 0, layLiquidity |-> 0, profitMargin |-> 0]

\* A margin guarded against a lay price of zero only.
calculateProfitMarginOfAnyLay(backOdds, layOdds) ==
    IF layOdds = 0 THEN 0
    ELSE IF layOdds < 0
    THEN 0 - (((backOdds - layOdds) * 10000) \div (0 - layOdds))
    ELSE ((backOdds - layOdds) * 10000) \div layOdds

\* utils.ts: (backOdds - layOdds) / layOdds, in basis points.
calculateProfitMargin(backOdds, layOdds) ==
    IF layOdds <= 0 THEN 0
    ELSE ((backOdds - layOdds) * 10000) \div layOdds

\* What calculateLayStake gives: an error thrown, or the stake in cents with
\* the divisor it was computed with, in hundredths.
LayStakeError == [threw |-> TRUE, divisor |-> 0, value |-> 0]

\* A guard that lets lay odds of exactly 1 through: the division by zero
\* gives Infinity, held here as 0 with its divisor.
calculateLayStakeFromOne(liability, layOdds) ==
    IF layOdds < 100 THEN LayStakeError
    ELSE [threw |-> FALSE, divisor |-> layOdds - 100,
          value |-> IF layOdds = 100 THEN 0
                    ELSE (liability * 100) \div (layOdds - 100)]

\* utils.ts: if (layOdds <= 1) throw; return liability / (layOdds - 1),
\* liability in cents and layOdds in hundredths.
calculateLayStake(liability, layOdds) ==
    IF layOdds <= 100 THEN LayStakeError
    ELSE [threw |-> FALSE, divisor |-> layOdds - 100,
          value |-> (liability * 100) \div (layOdds - 100)]

\* An id that also carries the time of the poll, as generateMockArb's does.
generateArbIdPerPoll(eventId, marketType) ==
    eventId \o "_" \o marketType \o "_" \o "1700000000001"

\* utils.ts: `${eventId}_${marketType}`
generateArbId(eventId, marketType) == eventId \o "_" \o marketType

\* The upper-case letters that occur in the names, with their lower case.
Folded ==
    [c \in {"A", "C", "E", "K", "L", "R", "S"} |->
        CASE c = "A" -> "a" [] c = "C" -> "c" [] c = "E" -> "e"
          [] c = "K" -> "k" [] c = "L" -> "l" [] c = "R" -> "r"
          [] OTHER -> "s"]

\* s.toLowerCase(), element by element of the name.
toLowerCase(s) ==
    [i \in DOMAIN s |-> IF s[i] \in DOMAIN Folded THEN Folded[s[i]] ELSE s[i]]

\* s.trim(): the blanks at both ends removed.
trim(s) ==
    LET inked == {i \in DOMAIN s : s[i] # " "}
    IN  IF inked = {} THEN <<>> ELSE SubSeq(s, Min(inked), Max(inked))

\* A matching that looks for an exact match in the whole list before it
\* accepts a partial one.
findMatchingRunnerExactFirst(bookieOutcome, betfairRunners) ==
    LET normalizedBookie == trim(toLowerCase(bookieOutcome))
        normalizedRunner(i) == trim(toLowerCase(betfairRunners[i].runnerName))
        exact == {i \in DOMAIN betfairRunners :
                     normalizedRunner(i) = normalizedBookie}
        partial == {i \in DOMAIN betfairRunners :
                       \/ Includes(normalizedRunner(i), normalizedBookie)
                       \/ Includes(normalizedBookie, normalizedRunner(i))}
    IN  IF exact # {} THEN Min(exact)
        ELSE IF partial # {} THEN Min(partial)
        ELSE 0

\* arbDetector.ts: the first runner whose normalized name equals the
\* normalized outcome, contains it or is contained in it: its index, 0 when
\* there is none.
findMatchingRunner(bookieOutcome, betfairRunners) ==
    LET normalizedBookie == trim(toLowerCase(bookieOutcome))
        normalizedRunner(i) == trim(toLowerCase(betfairRunners[i].runnerName))
        hits == {i \in DOMAIN betfairRunners :
                    \/ normalizedRunner(i) = normalizedBookie
                    \/ Includes(normalizedRunner(i), normalizedBookie)
                    \/ Includes(normalizedBookie, normalizedRunner(i))}
    IN  IF hits = {} THEN 0 ELSE Min(hits)

\* detectArb: bfMarket.runners.find(...), on lower case without trimming.
findHomeRunner(homeTeam, runners) ==
    LET hits == {i \in DOMAIN runners :
                    \/ Includes(toLowerCase(runners[i].runnerName),
                                toLowerCase(homeTeam))
                    \/ Includes(toLowerCase(homeTeam),
                                toLowerCase(runners[i].runnerName))}
    IN  IF hits = {} THEN 0 ELSE Min(hits)

\* The opportunity detectArbs and buildArbOpportunity build from one bookie
\* quote and the best lay price of its runner.
Opportunity(bookie, best) ==
    [id |-> generateArbId(bookie.eventId, Join(bookie.outcome)),
     bookie |-> bookie.bookie, bookieOdds |-> bookie.odds,
     suggestedStake |-> 0, layOdds |-> best.price,
     layLiquidity |-> (best.size * best.price) \div 100,
     profitMargin |-> calculateProfitMargin(bookie.odds, best.price)]

RECURSIVE detectArbs(_, _)
detectArbs(bookieOdds, betfairOdds) ==
    IF bookieOdds = <<>> THEN <<>>
    ELSE LET bookie == Head(bookieOdds)
             rest   == detectArbs(Tail(bookieOdds), betfairOdds)
             r      == findMatchingRunner(bookie.outcome, betfairOdds.runners)
         IN  IF r = 0 THEN rest
             ELSE IF betfairOdds.runners[r].availableToLay = <<>> THEN rest
             ELSE LET best == betfairOdds.runners[r].availableToLay[1]
                  IN  IF calculateProfitMargin(bookie.odds, best.price) > 0
                      THEN <<Opportunity(bookie, best)>> \o rest
                      ELSE rest

buildArbOpportunity(bookie, betfairRunner) ==
    IF betfairRunner.availableToLay = <<>> THEN NoOpportunity
    ELSE LET best == betfairRunner.availableToLay[1]
         IN  IF calculateProfitMargin(bookie.odds, best.price) <= 0
             THEN NoOpportunity
             ELSE Opportunity(bookie, best)

\* A later price of the same bookmaker that also replaces on a tie.
ReplacesOnTie(bm, existing) == bm.odds >= existing.odds

\* if (!existing || bm.odds > existing.odds)
Replaces(bm, existing) == bm.odds > existing.odds

\* The Map of detectArb, as the sequence of its entries in insertion order:
\* a key that is set again keeps its place.
RECURSIVE bookieMap(_, _)
bookieMap(bookmakers, homeTeam) ==
    IF bookmakers = <<>> THEN <<>>
    ELSE LET m  == bookieMap(SubSeq(bookmakers, 1, Len(bookmakers) - 1),
                             homeTeam)
             bm == bookmakers[Len(bookmakers)]
             e  == [bookie |-> bm.bookie, bookieKey |-> bm.bookieKey,
                    odds |-> bm.odds]
             at == {k \in DOMAIN m : m[k].bookie = bm.bookie}
         IN  IF ~(bm.market = "h2h" /\ bm.outcome = homeTeam) THEN m
             ELSE IF at = {} THEN Append(m, e)
             ELSE IF Replaces(bm, m[Min(at)])
             THEN [m EXCEPT ![Min(at)] = e]
             ELSE m

\* A liquidity test that lets a best lay size of exactly $20 through.
PassesFromTwentyDollars(backPrice, bfLayOdds, bfLiquidity) ==
    /\ 100 * 100 * (backPrice + bfLayOdds) < 98 * backPrice * bfLayOdds
    /\ bfLiquidity >= 20 * 100

\* A detector content with any implied probability below 1.
PassesBelowOne(backPrice, bfLayOdds, bfLiquidity) ==
    /\ 100 * (backPrice + bfLayOdds) < backPrice * bfLayOdds
    /\ bfLiquidity > 20 * 100

\* impliedProb < 0.98 && bfLiquidity > 20, with impliedProb =
\* (1 / backPrice) + (1 / bfLayOdds), odds in hundredths and sizes in cents.
Passes(backPrice, bfLayOdds, bfLiquidity) ==
    /\ 100 * 100 * (backPrice + bfLayOdds) < 98 * backPrice * bfLayOdds
    /\ bfLiquidity > 20 * 100

\* The passing entry with the highest price, 0 when none passes.
BestPassing(m, bfLayOdds, bfLiquidity) ==
    LET hits == {k \in DOMAIN m : Passes(m[k].odds, bfLayOdds, bfLiquidity)}
    IN  IF hits = {} THEN 0
        ELSE CHOOSE k \in hits : \A j \in hits : m[j].odds <= m[k].odds

\* for (const [bookieName, bookieData] of bookieMap): the first entry that
\* passes returns, 0 when none does.
FirstPassing(m, bfLayOdds, bfLiquidity) ==
    LET hits == {k \in DOMAIN m : Passes(m[k].odds, bfLayOdds, bfLiquidity)}
    IN  IF hits = {} THEN 0 ELSE Min(hits)

\* (1 / impliedProb) - 1, in basis points.
Margin(backPrice, bfLayOdds) ==
    (100 * backPrice * bfLayOdds) \div (backPrice + bfLayOdds) - 100 * 100

detectArb(game, bfMarket) ==
    LET h == findHomeRunner(game.homeTeam, bfMarket.runners)
    IN  IF h = 0 THEN NoOpportunity
        ELSE IF bfMarket.runners[h].availableToLay = <<>> THEN NoOpportunity
        ELSE LET bfLayPrice == bfMarket.runners[h].availableToLay[1]
                 m == bookieMap(game.bookmakers, game.homeTeam)
                 k == FirstPassing(m, bfLayPrice.price, bfLayPrice.size)
             IN  IF k = 0 THEN NoOpportunity
                 ELSE [id |-> game.eventId \o "_" \o m[k].bookieKey
                                 \o "_home",
                       bookie |-> m[k].bookie, bookieOdds |-> m[k].odds,
                       suggestedStake |-> 0,
                       layOdds |-> bfLayPrice.price,
                       layLiquidity |-> bfLayPrice.size,
                       profitMargin |->
                           Margin(m[k].odds, bfLayPrice.price)]

---------------------------------------------------------------------------
(* main.ts: the scans, their inputs *)

\* Object.values(SPORT_KEYS).filter(key => SPORT_TIERS[key] === tier)
TierSports(p) ==
    IF p = "tier1"
    THEN <<"basketball_nba", "aussierules_afl", "rugbyleague_nrl">>
    ELSE <<"cricket", "rugbyunion">>

\* Date.now() at the calls of generateMockArb.
Timestamps == {"1700000000001", "1700000000002"}

\* mockData.ts: Sportsbet 2.50 / Betfair 2.30
generateMockArb(timestamp) ==
    [id |-> "mock_arb_" \o timestamp, bookie |-> "Sportsbet",
     bookieOdds |-> 250, suggestedStake |-> 315, layOdds |-> 230,
     layLiquidity |-> 1100 * 100,
     profitMargin |-> ((250 - 230) * 10000) \div 230]

ScanIds == Ids \cup {generateMockArb(t).id : t \in Timestamps}

\* One parsed game: the event with the home price of its one bookmaker.
Game(eventId, bookie, bookieKey) ==
    [eventId |-> eventId, homeTeam |-> HomeTeam, awayTeam |-> AwayTeam,
     bookmakers |-> <<[bookie |-> bookie, bookieKey |-> bookieKey,
                       market |-> "h2h", outcome |-> HomeTeam,
                       odds |-> 250]>>]

\* parseOddsResponse(events): what a sport's poll may bring.
ParsedOdds ==
    {<<>>, <<Game("ev1", "Sportsbet", "sportsbet")>>,
     <<Game("ev1", "Sportsbet", "sportsbet"), Game("ev2", "TAB", "tab")>>}

NoCatalogue == [marketId |-> "", runners |-> <<>>]

\* catalogueResult[0]: with the home runner's name, and without it.
Catalogues ==
    {[marketId |-> "1.1",
      runners |-> <<[selectionId |-> 1, runnerName |-> HomeTeam],
                    [selectionId |-> 2, runnerName |-> AwayTeam]>>],
     [marketId |-> "1.1",
      runners |-> <<[selectionId |-> 2, runnerName |-> AwayTeam]>>]}

\* pricesResult[0]: the home runner's best lay offer, if it has one.
MarketBooks ==
    {[marketId |-> "1.1",
      runners |-> <<[selectionId |-> 1, availableToLay |-> lay],
                    [selectionId |-> 2, availableToLay |-> <<>>]>>] :
        lay \in {<<>>} \cup {<<[price |-> 240, size |-> z]>> :
                                z \in {20 * 100, 70249, 70250}}}

\* A merge that names the runners by their place in the catalogue.
mergeMarketByPosition(marketSummary, priceData) ==
    [marketId |-> marketSummary.marketId,
     runners |->
        [i \in DOMAIN priceData.runners |->
            [selectionId |-> priceData.runners[i].selectionId,
             runnerName |->
                 IF i \in DOMAIN marketSummary.runners
                 THEN marketSummary.runners[i].runnerName
                 ELSE <<"Unknown">>,
             availableToLay |-> priceData.runners[i].availableToLay]]]

\* Step 3: Merge catalogue data (names) with price data (odds)
mergeMarket(marketSummary, priceData) ==
    [marketId |-> marketSummary.marketId,
     runners |->
        [i \in DOMAIN priceData.runners |->
            LET r == priceData.runners[i]
                metas == {k \in DOMAIN marketSummary.runners :
                             marketSummary.runners[k].selectionId
                                = r.selectionId}
            IN  [selectionId |-> r.selectionId,
                 runnerName |->
                     IF metas = {} THEN <<"Unknown">>
                     ELSE marketSummary.runners[Min(metas)].runnerName,
                 availableToLay |-> r.availableToLay]]]

\* An opportunity that goes to the gate with the stake it was built with.
GateArbAsBuilt(arb, stake) ==
    [id |-> arb.id, profitMargin |-> arb.profitMargin,
     bookieOdds |-> arb.bookieOdds, layLiquidity |-> arb.layLiquidity,
     suggestedStake |-> arb.suggestedStake]

\* The fields of an opportunity the gate reads, with the stake assigned.
GateArb(arb, stake) ==
    [id |-> arb.id, profitMargin |-> arb.profitMargin,
     bookieOdds |-> arb.bookieOdds, layLiquidity |-> arb.layLiquidity,
     suggestedStake |-> stake]

\* processArbOpportunity(arb) is called: processArb issues its kv.get.
StartGate(p, arb) ==
    [gate EXCEPT
       ![p] = [GateIdle EXCEPT
                 !.pc = "isProcessed", !.arb = arb,
                 !.priorTtl = Max(Range(accepted[arb.id]) \cup {0})]]

\* scanSports hands an opportunity to processArbOpportunity, which assigns
\* the stake before it calls processArb (built: the stake it came with).
HandOver(p, arb, stake) ==
    [StartGate(p, GateArb(arb, stake)) EXCEPT
       ![p].built = arb.suggestedStake]

ScanIdle(mockMode) ==
    [pc |-> "idle", mockMode |-> mockMode, ran |-> FALSE,
     si |-> 0, games |-> <<>>, gi |-> 0, catalogue |-> NoCatalogue,
     req |-> {}, fetched |-> <<>>, looked |-> <<>>, handled |-> <<>>,
     failed |-> "none", called |-> FALSE, missed |-> {}]

\* The requests a gateway call may send: its method, after a login if the
\* session store has no token for it.
Requests(method) == {"login", method}

---------------------------------------------------------------------------
(* main.ts: the scans, their steps *)

\* Startup: if (isSydneyDaytime() && config.mockMode) one mock opportunity is
\* processed.  It runs in the place of the Tier 1 scan, before its first run.
Startup(p) ==
    /\ scan[p].pc = "startup"
    /\ \E daytime \in BOOLEAN :
          IF daytime /\ scan[p].mockMode
          THEN /\ \E t \in Timestamps, stake \in Stakes :
                     gate' = HandOver(p, generateMockArb(t), stake)
               /\ scan' = [scan EXCEPT ![p].pc = "startupGate"]
          ELSE /\ scan' = [scan EXCEPT ![p].pc = "idle"]
               /\ UNCHANGED gate
    /\ UNCHANGED <<kv, accepted, auth, issued, hist, marked, det, svc, util>>

\* Deno.cron fires: outside Sydney daytime the handler returns at once,
\* otherwise scanSports starts on the tier's sport keys.
TierScan(p) ==
    /\ scan[p].pc = "idle"
    /\ \E daytime \in BOOLEAN :
          scan' = [scan EXCEPT
                     ![p] = IF daytime
                            THEN [ScanIdle(scan[p].mockMode) EXCEPT
                                    !.pc = "sport", !.ran = TRUE]
                            ELSE [ScanIdle(scan[p].mockMode) EXCEPT
                                    !.pc = "done"]]
    /\ UNCHANGED <<kv, gate, accepted, auth, issued, hist, marked, det,
                   svc, util>>

\* for (const sportKey of sportKeys): in mock mode a mock opportunity goes
\* to processArbOpportunity, otherwise fetchOdds is called.
NextSport(p) ==
    /\ scan[p].pc = "sport"
    /\ IF scan[p].si = Len(TierSports(p))
       THEN /\ scan' = [scan EXCEPT ![p].pc = "done"]
            /\ UNCHANGED gate
       ELSE LET next == [scan[p] EXCEPT
                           !.si = @ + 1, !.games = <<>>, !.gi = 0,
                           !.fetched = Append(@, TierSports(p)[scan[p].si + 1]),
                           !.looked = <<>>, !.handled = <<>>,
                           !.failed = "none", !.called = FALSE,
                           !.missed = {}]
            IN  IF scan[p].mockMode
                THEN /\ \E t \in Timestamps, stake \in Stakes :
                           gate' = HandOver(p, generateMockArb(t), stake)
                     /\ scan' = [scan EXCEPT
                                   ![p] = [next EXCEPT !.pc = "gate",
                                                       !.called = TRUE]]
                ELSE /\ scan' = [scan EXCEPT
                                   ![p] = [next EXCEPT !.pc = "fetchOdds"]]
                     /\ UNCHANGED gate
    /\ UNCHANGED <<kv, accepted, auth, issued, hist, marked, det, svc, util>>

\* fetchOdds answers: it throws (quota exhausted, HTTP error), or brings the
\* games of the sport; no games, or no Betfair id for the sport key: continue.
FetchOdds(p) ==
    /\ scan[p].pc = "fetchOdds"
    /\ \/ \E error \in {"QuotaExhaustedError", "Error"} :
             scan' = [scan EXCEPT ![p].pc = "catch",
                                  ![p].failed = "fetchOdds"]
       \/ \E parsedOdds \in ParsedOdds, betfairEventTypeId \in BOOLEAN :
             scan' = [scan EXCEPT
                        ![p].pc = IF parsedOdds = <<>> \/ ~betfairEventTypeId
                                  THEN "sport" ELSE "game",
                        ![p].games = IF betfairEventTypeId
                                     THEN parsedOdds ELSE <<>>]
    /\ UNCHANGED <<kv, gate, accepted, auth, issued, hist, marked, det,
                   svc, util>>

\* for (const game of parsedOdds): findMarket is called for the next game,
\* and its listMarketCatalogue request goes out.
NextGame(p) ==
    /\ scan[p].pc = "game"
    /\ IF scan[p].gi = Len(scan[p].games)
       THEN scan' = [scan EXCEPT ![p].pc = "sport"]
       ELSE scan' = [scan EXCEPT
                          ![p].pc = "catalogue", ![p].gi = @ + 1,
                          ![p].req = Requests("listMarketCatalogue"),
                          ![p].called = TRUE,
                          ![p].looked =
                              Append(@, scan[p].games[scan[p].gi + 1].eventId)]
    /\ UNCHANGED <<kv, gate, accepted, auth, issued, hist, marked, det,
                   svc, util>>

\* The game is done with: the loop goes on.
Handled(rec) ==
    [rec EXCEPT !.pc = "game", !.req = {}, !.catalogue = NoCatalogue,
                !.handled = Append(@, rec.games[rec.gi].eventId)]

\* findMarket, step 1 answers: a failed call or an empty result is null,
\* otherwise the listMarketBook request goes out.
FindMarketCatalogue(p) ==
    /\ scan[p].pc = "catalogue"
    /\ \/ \E outcome \in {"throws", "empty"} :
             scan' = [scan EXCEPT ![p] = Handled(scan[p])]
       \/ \E marketSummary \in Catalogues :
             scan' = [scan EXCEPT ![p].pc = "book",
                                  ![p].req = Requests("listMarketBook"),
                                  ![p].catalogue = marketSummary]
    /\ UNCHANGED <<kv, gate, accepted, auth, issued, hist, marked, det,
                   svc, util>>

\* A scan that goes on to its next game without waiting for the gate.
NotAwaited(rec) == Handled(rec)

\* await processArbOpportunity(opportunity)
Awaited(rec) ==
    [rec EXCEPT !.pc = "gate", !.req = {}, !.catalogue = NoCatalogue]

\* findMarket, step 2 answers: a failed call or an empty result is null;
\* otherwise the market is merged, detectArb runs on it, and an opportunity
\* goes to processArbOpportunity.
FindMarketBook(p) ==
    /\ scan[p].pc = "book"
    /\ \/ /\ \E outcome \in {"throws", "empty"} :
                scan' = [scan EXCEPT ![p] = Handled(scan[p])]
          /\ UNCHANGED gate
       \/ \E priceData \in MarketBooks :
             LET betfairMarket == mergeMarket(scan[p].catalogue, priceData)
                 opportunity ==
                     detectArb(scan[p].games[scan[p].gi], betfairMarket)
             IN  IF opportunity = NoOpportunity
                 THEN /\ scan' = [scan EXCEPT ![p] = Handled(scan[p])]
                      /\ UNCHANGED gate
                 ELSE /\ \E stake \in Stakes :
                            gate' = HandOver(p, opportunity, stake)
                      /\ scan' = [scan EXCEPT ![p] = Awaited(scan[p])]
    /\ UNCHANGED <<kv, accepted, auth, issued, hist, marked, det, svc, util>>

\* A store operation of processArb fails: kv.get or kv.set rejects.
StoreFails(p) ==
    /\ scan[p].pc = "gate"
    /\ gate[p].pc \in {"isProcessed", "markProcessed"}
    /\ gate' = [gate EXCEPT ![p].pc = "threw"]
    /\ UNCHANGED <<kv, accepted, auth, issued, hist, marked, scan, det,
                   svc, util>>

\* processArbOpportunity settles: on its return the loop goes on, on its
\* exception control leaves the loops for the catch of the sport.
ProcessArbOpportunityReturns(p) ==
    /\ scan[p].pc \in {"gate", "startupGate"}
    /\ gate[p].pc \in {"done", "threw"}
    /\ gate' = [gate EXCEPT ![p] = GateIdle]
    /\ scan' = [scan EXCEPT
                  ![p] = IF gate[p].pc = "threw"
                         THEN [scan[p] EXCEPT !.pc = "catch",
                                              !.failed = "event"]
                         ELSE IF scan[p].pc = "startupGate"
                         THEN [scan[p] EXCEPT !.pc = "idle"]
                         ELSE IF scan[p].mockMode
                         THEN [scan[p] EXCEPT !.pc = "sport"]
                         ELSE Handled(scan[p])]
    /\ UNCHANGED <<kv, accepted, auth, issued, hist, marked, det, svc, util>>

\* The games of the sport that were never looked up.
Missed(rec) == {rec.games[i].eventId : i \in (rec.gi + 1)..Len(rec.games)}

\* A catch that hands the error on: scanSports ends there.
CatchRethrows(p) ==
    /\ scan[p].pc = "catch"
    /\ scan' = [scan EXCEPT ![p].pc = "done",
                            ![p].missed = Missed(scan[p])]
    /\ UNCHANGED <<kv, gate, accepted, auth, issued, hist, marked, det,
                   svc, util>>

\* catch (error) { console.error(`Error scanning ${sportKey}:`, error) }:
\* the loop over the sport keys goes on.
Catch(p) ==
    /\ scan[p].pc = "catch"
    /\ scan' = [scan EXCEPT ![p].pc = "sport",
                            ![p].missed = Missed(scan[p])]
    /\ UNCHANGED <<kv, gate, accepted, auth, issued, hist, marked, det,
                   svc, util>>

\* scanSports has returned; the cron handler is over.
ScanReturn(p) ==
    /\ scan[p].pc = "done"
    /\ scan' = [scan EXCEPT ![p] = ScanIdle(scan[p].mockMode)]
    /\ UNCHANGED <<kv, gate, accepted, auth, issued, hist, marked, det,
                   svc, util>>

---------------------------------------------------------------------------
(* The detectors, called on their own *)

\* Quotes a game may carry before the model stops adding to it.
MaxQuotes == 3

\* The entries parseOddsResponse makes of the bookmakers' outcomes.
Quotes ==
    {[bookie |-> b[1], bookieKey |-> b[2], market |-> "h2h",
      outcome |-> HomeTeam, odds |-> o] :
        b \in {<<"Sportsbet", "sportsbet">>, <<"Ladbrokes", "ladbrokes_au">>,
               <<"Ladbrokes", "ladbrokes_uk">>},
        o \in {200, 210}}
    \cup {[bookie |-> "TAB", bookieKey |-> "tab", market |-> "spreads",
           outcome |-> HomeTeam, odds |-> 300],
          [bookie |-> "TAB", bookieKey |-> "tab", market |-> "h2h",
           outcome |-> AwayTeam, odds |-> 300]}

DetGames ==
    {[eventId |-> "ev1", homeTeam |-> HomeTeam, awayTeam |-> AwayTeam,
      bookmakers |-> q] :
        q \in UNION {[1..n -> Quotes] : n \in 0..MaxQuotes}}

\* The first runner of the market: named as the home team, by a part of its
\* name, or as the away team; with or without a best lay offer.
DetMarkets ==
    {[marketId |-> "1.1",
      runners |-> <<[selectionId |-> 1, runnerName |-> name,
                     availableToLay |-> lay],
                    [selectionId |-> 2, runnerName |-> AwayTeam,
                     availableToLay |-> <<[price |-> 180, size |-> 5000]>>]>>] :
        name \in {HomeTeam, <<"kings">>, AwayTeam},
        lay \in {<<>>} \cup
                {<<[price |-> x[1], size |-> x[2]]>> :
                    x \in {<<120, 2001>>, <<205, 20 * 100>>,
                           <<205, 2001>>, <<220, 2001>>}}}

\* The BookieOdds entries of a game.
bookieOddsOf(game) ==
    [i \in DOMAIN game.bookmakers |->
        [eventId |-> game.eventId, bookie |-> game.bookmakers[i].bookie,
         bookieKey |-> game.bookmakers[i].bookieKey,
         outcome |-> game.bookmakers[i].outcome,
         odds |-> game.bookmakers[i].odds]]

DetIdle ==
    [pc |-> "ready", fn |-> "none",
     game |-> [eventId |-> "ev1", homeTeam |-> HomeTeam,
               awayTeam |-> AwayTeam, bookmakers |-> <<>>],
     market |-> [marketId |-> "1.1", runners |-> <<>>],
     opportunity |-> NoOpportunity, opportunities |-> <<>>]

DetectArb ==
    /\ det.pc = "ready"
    /\ det' = [det EXCEPT
                 !.pc = "done", !.fn = "detectArb",
                 !.opportunity = detectArb(det.game, det.market)]
    /\ UNCHANGED <<kv, gate, accepted, auth, issued, hist, marked, scan,
                   svc, util>>

DetectArbs ==
    /\ det.pc = "ready"
    /\ det' = [det EXCEPT
                 !.pc = "done", !.fn = "detectArbs",
                 !.opportunities =
                     detectArbs(bookieOddsOf(det.game), det.market)]
    /\ UNCHANGED <<kv, gate, accepted, auth, issued, hist, marked, scan,
                   svc, util>>

BuildArbOpportunity ==
    /\ det.pc = "ready"
    /\ \E i \in DOMAIN det.game.bookmakers, r \in DOMAIN det.market.runners :
          det' = [det EXCEPT
                    !.pc = "done", !.fn = "buildArbOpportunity",
                    !.opportunity =
                        buildArbOpportunity(bookieOddsOf(det.game)[i],
                                            det.market.runners[r])]
    /\ UNCHANGED <<kv, gate, accepted, auth, issued, hist, marked, scan,
                   svc, util>>

---------------------------------------------------------------------------
(* BetfairService: findMarket and placeLayBet over the gateway *)

\* The arrays listMarketCatalogue and listMarketBook may answer with.
\* A market with a draw, its runners in another order than the price book's.
DrawCatalogue ==
    [marketId |-> "1.2",
     runners |-> <<[selectionId |-> 3, runnerName |-> <<"the", "draw">>],
                   [selectionId |-> 2, runnerName |-> AwayTeam],
                   [selectionId |-> 1, runnerName |-> HomeTeam]>>]

CatalogueResults == {<<>>} \cup {<<c>> : c \in Catalogues \cup {DrawCatalogue}}

BookResults == {<<>>} \cup {<<b>> : b \in MarketBooks}

\* The arguments of placeLayBet: the liability in cents, the lay odds.
Liabilities == {300 * 100}

LayOddsArgs == {0, 100, 230}

\* getAccountFunds: a balance one cent short of the liability, and enough.
AccountFunds == {[availableToBetBalance |-> b] : b \in {29999, 30000}}

NoOrder == [status |-> "none", errorCode |-> "", instructionReports |-> <<>>]

\* BetfairPlaceOrderResponse, with at most one instruction report; an absent
\* betId or errorCode is the empty string.
OrderResponses ==
    {[status |-> st, errorCode |-> ec, instructionReports |-> reps] :
        st \in {"SUCCESS", "FAILURE"},
        ec \in {"", "MARKET_SUSPENDED"},
        reps \in {<<>>} \cup
                 {<<[status |-> rs, betId |-> b, errorCode |-> e]>> :
                     rs \in {"SUCCESS", "FAILURE"},
                     b \in {"", "bet1"},
                     e \in {"", "INSUFFICIENT_FUNDS"}}}

NoLayBetResult == [status |-> "none", betId |-> "", error |-> ""]

SvcIdle ==
    [pc |-> "idle", fn |-> "none", liabilityNeeded |-> 0, layOdds |-> 0,
     calls |-> <<>>, failure |-> "", listed |-> <<>>, order |-> NoOrder,
     marketIds |-> <<>>, layStake |-> 0 - 1, balance |-> 0 - 1,
     catalogue |-> NoCatalogue, market |-> NoCatalogue,
     returned |-> "none", layBet |-> NoLayBetResult, threw |-> FALSE]

\* The message of the error a failed makeRequest has thrown.
ErrorMessage(a) ==
    IF a.gst = "threw" THEN "Betfair Login Failed"
    ELSE IF a.responses[Len(a.responses)].kind = "noResult"
    THEN "Betfair API returned no result"
    ELSE "Betfair API error"

\* this.makeRequest(...) is called from the service.
StartRequest(p) ==
    [auth EXCEPT
       ![p] = Invoke([AuthIdle EXCEPT !.kind = "makeRequest"], "send", FALSE)]

\* A findMarket whose catch block throws the error on.
OnFindMarketErrorThrows(rec) ==
    [rec EXCEPT !.pc = "done", !.threw = TRUE]

\* catch (error) { return null; }
OnFindMarketError(rec) ==
    [rec EXCEPT !.pc = "done", !.returned = "null"]

\* findMarket(params) is called: Step 1, listMarketCatalogue.
FindMarket(p) ==
    /\ svc[p].pc = "idle"
    /\ auth[p].pc = "idle"
    /\ svc' = [svc EXCEPT ![p] = [SvcIdle EXCEPT
                                    !.pc = "catalogue", !.fn = "findMarket"]]
    /\ auth' = StartRequest(p)
    /\ UNCHANGED <<kv, gate, accepted, issued, hist, marked, scan, det, util>>

\* The catalogue request has ended: thrown, or returned catalogueResult.
FindMarketStep1(p) ==
    /\ svc[p].pc = "catalogue"
    /\ auth[p].pc = "done"
    /\ LET rec == [svc[p] EXCEPT
                     !.calls = Append(@, auth[p].outcome),
                     !.failure = IF auth[p].outcome = "error"
                                 THEN ErrorMessage(auth[p]) ELSE @]
       IN  IF auth[p].outcome = "error"
           THEN /\ svc' = [svc EXCEPT ![p] = OnFindMarketError(rec)]
                /\ auth' = [auth EXCEPT ![p] = AuthIdle]
           ELSE \E catalogueResult \in CatalogueResults :
                   IF Len(catalogueResult) = 0
                   THEN /\ svc' = [svc EXCEPT
                                     ![p] = [rec EXCEPT
                                               !.pc = "done",
                                               !.listed = catalogueResult,
                                               !.returned = "null"]]
                        /\ auth' = [auth EXCEPT ![p] = AuthIdle]
                   ELSE /\ svc' = [svc EXCEPT
                                     ![p] = [rec EXCEPT
                                               !.pc = "book",
                                               !.listed = catalogueResult,
                                               !.catalogue =
                                                   catalogueResult[1],
                                               !.marketIds =
                                                   <<catalogueResult[1]
                                                       .marketId>>]]
                        /\ auth' = StartRequest(p)
    /\ UNCHANGED <<kv, gate, accepted, issued, hist, marked, scan, det, util>>

\* Step 2 has ended: thrown, or returned pricesResult; Step 3 merges.
FindMarketStep2(p) ==
    /\ svc[p].pc = "book"
    /\ auth[p].pc = "done"
    /\ LET rec == [svc[p] EXCEPT
                     !.calls = Append(@, auth[p].outcome),
                     !.failure = IF auth[p].outcome = "error"
                                 THEN ErrorMessage(auth[p]) ELSE @]
       IN  IF auth[p].outcome = "error"
           THEN svc' = [svc EXCEPT ![p] = OnFindMarketError(rec)]
           ELSE \E pricesResult \in BookResults :
                   svc' = [svc EXCEPT
                             ![p] =
                               IF Len(pricesResult) = 0
                               THEN [rec EXCEPT
                                       !.pc = "done",
                                       !.listed = pricesResult,
                                       !.returned = "null"]
                               ELSE [rec EXCEPT
                                       !.pc = "done",
                                       !.listed = pricesResult,
                                       !.returned = "market",
                                       !.market =
                                           mergeMarket(rec.catalogue,
                                                       pricesResult[1])]]
    /\ auth' = [auth EXCEPT ![p] = AuthIdle]
    /\ UNCHANGED <<kv, gate, accepted, issued, hist, marked, scan, det, util>>

\* catch (error): status FAILED with the message of the error.
OnPlaceLayBetError(rec, message) ==
    [rec EXCEPT !.pc = "done",
                !.layBet = [status |-> "FAILED", betId |-> "",
                            error |-> message]]

\* A result that trusts the status of the order response alone.
layBetResultOfOrderStatus(result) ==
    IF result.status = "SUCCESS"
    THEN [status |-> "SUCCESS",
          betId |-> IF Len(result.instructionReports) > 0
                    THEN result.instructionReports[1].betId ELSE "",
          error |-> ""]
    ELSE [status |-> "FAILED", betId |-> "",
          error |-> IF result.errorCode # "" THEN result.errorCode
                    ELSE "Failed to place bet"]

\* The LayBetResult made of the response to placeOrders.
layBetResult(result) ==
    IF result.status = "SUCCESS" /\ Len(result.instructionReports) > 0
    THEN LET report == result.instructionReports[1]
         IN  IF report.status = "SUCCESS" /\ report.betId # ""
             THEN [status |-> "SUCCESS", betId |-> report.betId,
                   error |-> ""]
             ELSE [status |-> "FAILED", betId |-> "",
                   error |-> IF report.errorCode # "" THEN report.errorCode
                             ELSE "Unknown error placing bet"]
    ELSE [status |-> "FAILED", betId |-> "",
          error |-> IF result.errorCode # "" THEN result.errorCode
                    ELSE "Failed to place bet"]

\* placeLayBet(marketId, selectionId, liabilityNeeded, layOdds) is called:
\* the lay stake is calculated, then the account funds are asked for.
PlaceLayBet(p) ==
    /\ svc[p].pc = "idle"
    /\ auth[p].pc = "idle"
    /\ \E liabilityNeeded \in Liabilities, layOdds \in LayOddsArgs :
          LET rec == [SvcIdle EXCEPT
                        !.fn = "placeLayBet",
                        !.liabilityNeeded = liabilityNeeded,
                        !.layOdds = layOdds]
          IN  IF calculateLayStake(liabilityNeeded, layOdds).threw
              THEN /\ svc' = [svc EXCEPT
                                ![p] = OnPlaceLayBetError(rec,
                                         "Lay odds must be greater than 1")]
                   /\ auth' = auth
              ELSE /\ svc' = [svc EXCEPT
                                ![p] = [rec EXCEPT
                                          !.pc = "funds",
                                          !.layStake =
                                             calculateLayStake(
                                                liabilityNeeded,
                                                layOdds).value]]
                   /\ auth' = StartRequest(p)
    /\ UNCHANGED <<kv, gate, accepted, issued, hist, marked, scan, det, util>>

\* A placeLayBet that asks for the funds and places the order whatever the
\* balance.
CheckBalanceUnguarded(p) ==
    /\ svc[p].pc = "funds"
    /\ auth[p].pc = "done"
    /\ LET rec == [svc[p] EXCEPT
                     !.calls = Append(@, auth[p].outcome),
                     !.failure = IF auth[p].outcome = "error"
                                 THEN ErrorMessage(auth[p]) ELSE @]
       IN  IF auth[p].outcome = "error"
           THEN /\ svc' = [svc EXCEPT
                             ![p] = OnPlaceLayBetError(rec, rec.failure)]
                /\ auth' = [auth EXCEPT ![p] = AuthIdle]
           ELSE \E funds \in AccountFunds :
                   IF funds.availableToBetBalance < 0
                   THEN /\ svc' = [svc EXCEPT
                                     ![p] = [rec EXCEPT
                                        !.pc = "done",
                                        !.balance =
                                           funds.availableToBetBalance,
                                        !.layBet =
                                           [status |-> "FAILED",
                                            betId |-> "",
                                            error |->
                                               "Insufficient balance"]]]
                        /\ auth' = [auth EXCEPT ![p] = AuthIdle]
                   ELSE /\ svc' = [svc EXCEPT
                                     ![p] = [rec EXCEPT
                                        !.pc = "orders",
                                        !.balance =
                                           funds.availableToBetBalance]]
                        /\ auth' = StartRequest(p)
    /\ UNCHANGED <<kv, gate, accepted, issued, hist, marked, scan, det, util>>

\* getAccountFunds has ended: Check account balance, then placeOrders.
CheckBalance(p) ==
    /\ svc[p].pc = "funds"
    /\ auth[p].pc = "done"
    /\ LET rec == [svc[p] EXCEPT
                     !.calls = Append(@, auth[p].outcome),
                     !.failure = IF auth[p].outcome = "error"
                                 THEN ErrorMessage(auth[p]) ELSE @]
       IN  IF auth[p].outcome = "error"
           THEN /\ svc' = [svc EXCEPT
                             ![p] = OnPlaceLayBetError(rec, rec.failure)]
                /\ auth' = [auth EXCEPT ![p] = AuthIdle]
           ELSE \E funds \in AccountFunds :
                   IF funds.availableToBetBalance < rec.liabilityNeeded
                   THEN /\ svc' = [svc EXCEPT
                                     ![p] = [rec EXCEPT
                                        !.pc = "done",
                                        !.balance =
                                           funds.availableToBetBalance,
                                        !.layBet =
                                           [status |-> "FAILED",
                                            betId |-> "",
                                            error |->
                                               "Insufficient balance"]]]
                        /\ auth' = [auth EXCEPT ![p] = AuthIdle]
                   ELSE /\ svc' = [svc EXCEPT
                                     ![p] = [rec EXCEPT
                                        !.pc = "orders",
                                        !.balance =
                                           funds.availableToBetBalance]]
                        /\ auth' = StartRequest(p)
    /\ UNCHANGED <<kv, gate, accepted, issued, hist, marked, scan, det, util>>

\* placeOrders has ended: thrown, or returned the order response.
PlaceOrders(p) ==
    /\ svc[p].pc = "orders"
    /\ auth[p].pc = "done"
    /\ LET rec == [svc[p] EXCEPT
                     !.calls = Append(@, auth[p].outcome),
                     !.failure = IF auth[p].outcome = "error"
                                 THEN ErrorMessage(auth[p]) ELSE @]
       IN  IF auth[p].outcome = "error"
           THEN svc' = [svc EXCEPT
                          ![p] = OnPlaceLayBetError(rec, rec.failure)]
           ELSE \E result \in OrderResponses :
                   svc' = [svc EXCEPT
                             ![p] = [rec EXCEPT
                                       !.pc = "done", !.order = result,
                                       !.layBet = layBetResult(result)]]
    /\ auth' = [auth EXCEPT ![p] = AuthIdle]
    /\ UNCHANGED <<kv, gate, accepted, issued, hist, marked, scan, det, util>>

\* The service call has returned to its caller.
ServiceReturn(p) ==
    /\ svc[p].pc = "done"
    /\ svc' = [svc EXCEPT ![p] = SvcIdle]
    /\ UNCHANGED <<kv, gate, accepted, auth, issued, hist, marked, scan, det,
                   util>>

---------------------------------------------------------------------------
(* utils.ts and findMatchingRunner, called on bounded arguments *)

\* Odds in hundredths: negative, zero, and both sides of each other.
OddsArgs == {0 - 150, 0, 1, 101, 200, 201, 250}

LiabilityArgs == {0, 12345, 300 * 100}

LayStakeOddsArgs == {0 - 100, 0, 99, 100, 101, 230}

\* <<min, max>>: the configured range, short ranges around multiples of 50,
\* a negative one, and ranges of one value.
StakeRanges ==
    {<<280, 420>>, <<49, 51>>, <<50, 51>>, <<99, 100>>, <<100, 150>>,
     <<0 - 50, 0 - 49>>, <<281, 281>>, <<50, 50>>, <<300, 300>>}

\* Names, character by character.
Lakers == <<"L", "a", "k", "e", "r", "s">>

PaddedLakers == <<" ", "L", "A", "K", "E", "R", "S", " ">>

LosAngelesLakers ==
    <<"L", "o", "s", " ", "A", "n", "g", "e", "l", "e", "s", " ",
      "L", "a", "k", "e", "r", "s">>

Celtis == <<"C", "e", "l", "t", "i", "s">>

Celtics == <<"C", "e", "l", "t", "i", "c", "s">>

OutcomeNames == {Lakers, PaddedLakers, Celtis, Celtics}

\* The runners of a market, each name at its own best lay price.
RunnerArgs ==
    {[runnerName |-> LosAngelesLakers,
      availableToLay |-> <<[price |-> 300, size |-> 5000]>>],
     [runnerName |-> Lakers,
      availableToLay |-> <<[price |-> 120, size |-> 5000]>>],
     [runnerName |-> Celtics,
      availableToLay |-> <<[price |-> 180, size |-> 5000]>>]}

MaxRunners == 3

UtilIdle ==
    [pc |-> "ready", fn |-> "none", backOdds |-> 0, layOdds |-> 0,
     liability |-> 0, min |-> 0, max |-> 0, stake |-> 0, rejected |-> FALSE,
     even |-> TRUE,
     outcome |-> <<>>, runners |-> <<>>,
     margin |-> 0, layStake |-> LayStakeError, runner |-> 0,
     error |-> ""]

CalculateProfitMargin ==
    /\ util.pc = "ready"
    /\ \E backOdds \in OddsArgs, layOdds \in OddsArgs :
          util' = [util EXCEPT
                     !.pc = "done", !.fn = "calculateProfitMargin",
                     !.backOdds = backOdds, !.layOdds = layOdds,
                     !.margin = calculateProfitMargin(backOdds, layOdds)]
    /\ UNCHANGED <<kv, gate, accepted, auth, issued, hist, marked, scan, det,
                   svc>>

CalculateLayStake ==
    /\ util.pc = "ready"
    /\ \E liability \in LiabilityArgs, layOdds \in LayStakeOddsArgs :
          util' = [util EXCEPT
                     !.pc = "done", !.fn = "calculateLayStake",
                     !.liability = liability, !.layOdds = layOdds,
                     !.layStake = calculateLayStake(liability, layOdds),
                     !.error =
                         IF calculateLayStake(liability, layOdds).threw
                         THEN "Lay odds must be greater than 1" ELSE ""]
    /\ UNCHANGED <<kv, gate, accepted, auth, issued, hist, marked, scan, det,
                   svc>>

\* calculateGreyManStake(min, max) is called: the loop is entered.
CalculateGreyManStake ==
    /\ util.pc = "ready"
    /\ \E range \in StakeRanges :
          util' = [util EXCEPT
                     !.pc = "sample", !.fn = "calculateGreyManStake",
                     !.min = range[1], !.max = range[2]]
    /\ UNCHANGED <<kv, gate, accepted, auth, issued, hist, marked, scan, det,
                   svc>>

\* A loop condition that looks at multiples of 100 only.
DisqualifiedByHundreds(stake) == stake % 100 = 0

\* while (stake % 50 === 0 || stake % 100 === 0)
Disqualified(stake) == stake % 50 = 0 \/ stake % 100 = 0

\* Math.floor(Math.random() * (max - min + 1)) + min gives a stake the loop
\* condition throws back: the loop goes round (even: the parity of the
\* rounds made).
Resample ==
    /\ util.pc = "sample"
    /\ \E stake \in util.min .. util.max :
          /\ Disqualified(stake)
          /\ util' = [util EXCEPT !.stake = stake, !.rejected = TRUE,
                                  !.even = ~@]
    /\ UNCHANGED <<kv, gate, accepted, auth, issued, hist, marked, scan, det,
                   svc>>

\* The draw gives a stake the loop condition lets through: return stake.
ReturnStake ==
    /\ util.pc = "sample"
    /\ \E stake \in util.min .. util.max :
          /\ ~Disqualified(stake)
          /\ util' = [util EXCEPT !.pc = "done", !.stake = stake]
    /\ UNCHANGED <<kv, gate, accepted, auth, issued, hist, marked, scan, det,
                   svc>>

FindMatchingRunner ==
    /\ util.pc = "ready"
    /\ \E outcome \in OutcomeNames,
          runners \in UNION {[1..n -> RunnerArgs] : n \in 0..MaxRunners} :
          util' = [util EXCEPT
                     !.pc = "done", !.fn = "findMatchingRunner",
                     !.outcome = outcome, !.runners = runners,
                     !.runner = findMatchingRunner(outcome, runners)]
    /\ UNCHANGED <<kv, gate, accepted, auth, issued, hist, marked, scan, det,
                   svc>>

---------------------------------------------------------------------------
(* Time *)

\* TickSeconds pass: every entry of the store is that much nearer its expiry.
Tick ==
    /\ kv' = Expire(kv)
    /\ accepted' = [i \in DOMAIN accepted |-> Aged(accepted[i])]
    /\ gate' = [p \in Scans |->
                  [gate[p] EXCEPT
                     !.priorTtl = IF gate[p].pc = "isProcessed"
                                  THEN Dec(@) ELSE @,
                     !.unsent = IF gate[p].window <= 1 THEN "" ELSE @,
                     !.window = Dec(@)]]
    /\ hist' = IF kv.session.ttl = 1
               THEN [hist EXCEPT !.removed = TRUE]
               ELSE hist
    /\ UNCHANGED <<auth, issued, marked, scan, det, svc, util>>

---------------------------------------------------------------------------
(* Specifications *)

Init ==
    /\ kv = [processed |-> [i \in Ids |-> 0], session |-> NoSession]
    /\ gate = [p \in Scans |-> GateIdle]
    /\ accepted = [i \in Ids |-> <<>>]
    /\ auth = [p \in Scans |-> AuthIdle]
    /\ issued = 0
    /\ hist = [lastSet |-> 0, removed |-> FALSE, failQuiet |-> FALSE]
    /\ marked = {}
    /\ scan = [p \in Scans |-> ScanIdle(FALSE)]
    /\ det = DetIdle
    /\ svc = [p \in Scans |-> SvcIdle]
    /\ util = UtilIdle

NextGate ==
    \/ \E p \in Scans : ProcessArbOpportunity(p)
    \/ \E p \in Scans : IsProcessed(p)
    \/ \E p \in Scans : MarkProcessed(p)
    \/ \E p \in Scans : SendTelegramAlert(p)
    \/ \E p \in Scans : GateReturn(p)
    \/ Tick

NextAuth ==
    \/ \E p \in Scans : MakeRequest(p)
    \/ \E p \in Scans : GetSessionToken(p)
    \/ \E p \in Scans : GetCached(p)
    \/ \E p \in Scans : Login(p)
    \/ \E p \in Scans : SetSession(p)
    \/ \E p \in Scans : DeleteSession(p)
    \/ \E p \in Scans : Send(p)
    \/ \E p \in Scans : Retry(p)
    \/ \E p \in Scans : AuthReturn(p)
    \/ Tick

\* The gateway calls of the scans inside the lifetime of a stored session,
\* what each rejection met kept on record.
NextRetry ==
    \/ \E p \in Scans : MakeRequest(p)
    \/ \E p \in Scans : GetCached(p)
    \/ \E p \in Scans : Login(p)
    \/ \E p \in Scans : SetSession(p)
    \/ \E p \in Scans : DeleteSession(p)
    \/ \E p \in Scans : SendRecorded(p)
    \/ \E p \in Scans : Retry(p)
    \/ \E p \in Scans : AuthReturn(p)

Next == NextGate \/ NextAuth

\* The program in mock mode or in live mode, its startup scan ahead.
InitScan ==
    /\ kv = [processed |-> [i \in ScanIds |-> 0], session |-> NoSession]
    /\ gate = [p \in Scans |-> GateIdle]
    /\ accepted = [i \in ScanIds |-> <<>>]
    /\ auth = [p \in Scans |-> AuthIdle]
    /\ issued = 0
    /\ hist = [lastSet |-> 0, removed |-> FALSE, failQuiet |-> FALSE]
    /\ marked = {}
    /\ \E mockMode \in BOOLEAN :
          scan = [p \in Scans |->
                    [ScanIdle(mockMode) EXCEPT
                       !.pc = IF p = "tier1" THEN "startup" ELSE "idle"]]
    /\ det = DetIdle
    /\ svc = [p \in Scans |-> SvcIdle]
    /\ util = UtilIdle

NextScan ==
    \/ \E p \in Scans : Startup(p)
    \/ \E p \in Scans : TierScan(p)
    \/ \E p \in Scans : NextSport(p)
    \/ \E p \in Scans : FetchOdds(p)
    \/ \E p \in Scans : NextGame(p)
    \/ \E p \in Scans : FindMarketCatalogue(p)
    \/ \E p \in Scans : FindMarketBook(p)
    \/ \E p \in Scans : IsProcessed(p)
    \/ \E p \in Scans : MarkProcessed(p)
    \/ \E p \in Scans : SendTelegramAlert(p)
    \/ \E p \in Scans : StoreFails(p)
    \/ \E p \in Scans : ProcessArbOpportunityReturns(p)
    \/ \E p \in Scans : Catch(p)
    \/ \E p \in Scans : ScanReturn(p)

\* A detector about to be called on a game and a market.
InitDetect ==
    /\ kv = [processed |-> [i \in Ids |-> 0], session |-> NoSession]
    /\ gate = [p \in Scans |-> GateIdle]
    /\ accepted = [i \in Ids |-> <<>>]
    /\ auth = [p \in Scans |-> AuthIdle]
    /\ issued = 0
    /\ hist = [lastSet |-> 0, removed |-> FALSE, failQuiet |-> FALSE]
    /\ marked = {}
    /\ scan = [p \in Scans |-> ScanIdle(FALSE)]
    /\ \E game \in DetGames, market \in DetMarkets :
          det = [DetIdle EXCEPT !.game = game, !.market = market]
    /\ svc = [p \in Scans |-> SvcIdle]
    /\ util = UtilIdle

NextDetect == DetectArb \/ DetectArbs \/ BuildArbOpportunity

\* The scan whose service calls are followed: the store keeps what its
\* earlier calls have left, and the responses and login results are free.
Callers == {"tier1"}

\* findMarket and placeLayBet over the session manager and the gateway.
NextService ==
    \/ \E p \in Callers : FindMarket(p)
    \/ \E p \in Callers : FindMarketStep1(p)
    \/ \E p \in Callers : FindMarketStep2(p)
    \/ \E p \in Callers : PlaceLayBet(p)
    \/ \E p \in Callers : CheckBalance(p)
    \/ \E p \in Callers : PlaceOrders(p)
    \/ \E p \in Callers : ServiceReturn(p)
    \/ \E p \in Callers : GetCached(p)
    \/ \E p \in Callers : Login(p)
    \/ \E p \in Callers : SetSession(p)
    \/ \E p \in Callers : DeleteSession(p)
    \/ \E p \in Callers : Send(p)
    \/ \E p \in Callers : Retry(p)
    \/ Tick

NextUtils ==
    \/ CalculateProfitMargin
    \/ CalculateLayStake
    \/ CalculateGreyManStake
    \/ Resample
    \/ ReturnStake
    \/ FindMatchingRunner

\* The gate under concurrent scans.
SpecGate == Init /\ [][NextGate]_vars

\* The session manager and the gateway under concurrent scans.
SpecAuth == Init /\ [][NextAuth]_vars

\* The gateway under concurrent scans, its rejections on record.
SpecRetry == Init /\ [][NextRetry]_vars

\* The gate and the gateway together.
Spec == Init /\ [][Next]_vars

\* The startup scan and the cron scans, over the gate, within one tick.
SpecScan == InitScan /\ [][NextScan]_vars

\* The detectors on every game and market of the bounded sets.
SpecDetect == InitDetect /\ [][NextDetect]_vars

\* The service calls of one scan over the gateway, time passing.
SpecService == Init /\ [][NextService]_vars

\* The utility functions on the bounded arguments.
SpecUtils == Init /\ [][NextUtils]_vars

\* The same, where the sampling loop keeps running once it is entered, and
\* a draw that ends it is not put off for ever while such a draw is
\* possible: Math.random() gives every stake of the range again and again.
SpecUtilsFair ==
    SpecUtils /\ WF_vars(Resample \/ ReturnStake) /\ SF_vars(ReturnStake)

---------------------------------------------------------------------------
(* The gate's claims, checked under SpecGate *)

AlreadyProcessed == [processed |-> FALSE, reason |-> "Already processed"]

\* C1. Sequential idempotence of the gate.  A call that starts after an
\* accepted call for the same id has completed, and reads the store while
\* that call's retention window is still open, is rejected as "Already
\* processed"; a call for a valid opportunity that reads the store while no
\* accepted call's window is open for its id is accepted.
C1_SequentialIdempotence ==
    \A p \in Scans :
        gate[p].pc \in {"markProcessed", "notify", "done"} =>
            /\ gate[p].priorLive =>
                  gate[p].pc = "done" /\ gate[p].result = AlreadyProcessed
            /\ (gate[p].fresh /\ validateArb(gate[p].arb).valid) =>
                  \/ gate[p].pc = "markProcessed"
                  \/ gate[p].result = [processed |-> TRUE, reason |-> ""]

\* A second call for a valid opportunity, inside the window, was rejected.
C1_Witness ==
    \E p \in Scans :
        /\ gate[p].pc = "done"
        /\ gate[p].priorLive
        /\ validateArb(gate[p].arb).valid
        /\ gate[p].result = AlreadyProcessed

\* C2. At-most-once admission.  For every id, at most one accepted call
\* (processed:true, marker written) has its retention window open at any
\* time, whatever the interleaving of the scans' processArb calls.
C2_AtMostOnce == \A i \in Ids : Len(accepted[i]) <= 1

\* C3. The check-then-write race.  A call that completed isProcessed and
\* validation while another call for the same id stood between its own read
\* and its write goes on, like that other call, to write its marker and to
\* return processed:true, and the notifier is invoked for it.
C3_RaceBothAccepted ==
    \A p \in Scans :
        gate[p].raced =>
            /\ gate[p].pc \in {"markProcessed", "notify", "done"}
            /\ gate[p].pc \in {"notify", "done"} =>
                  gate[p].result = [processed |-> TRUE, reason |-> ""]
            /\ gate[p].pc = "done" => gate[p].alerted

\* Both racing calls were accepted and notified for the one id.
C3_Witness ==
    \E p, q \in Scans :
        /\ p # q
        /\ gate[p].raced /\ gate[q].raced
        /\ gate[p].arb.id = gate[q].arb.id
        /\ gate[p].pc = "done" /\ gate[q].pc = "done"
        /\ gate[p].result.processed /\ gate[q].result.processed
        /\ gate[p].alerted /\ gate[q].alerted
        /\ Len(accepted[gate[p].arb.id]) >= 2

---------------------------------------------------------------------------
(* The gateway's and the session manager's claims, checked under SpecAuth *)

\* C4. Single-retry ceiling.  One top-level makeRequest call sends the
\* remote request at most twice.
C4_SingleRetryCeiling == \A p \in Scans : auth[p].sends <= 2

\* C5. Recovery from session invalidation.  A makeRequest call whose first
\* response signalled INVALID_SESSION and whose second response carried a
\* result returns that result, having sent twice and refreshed once.
C5_RecoversOnSecondAttempt ==
    \A p \in Scans :
        ( /\ auth[p].pc = "done"
          /\ Len(auth[p].responses) = 2
          /\ auth[p].responses[1].kind = "INVALID_SESSION"
          /\ auth[p].responses[2].kind = "result" ) =>
            /\ auth[p].outcome = "result"
            /\ auth[p].value = auth[p].responses[2].value
            /\ auth[p].sends = 2
            /\ auth[p].refreshes = 1

\* A call that recovered on its second attempt.
C5_Witness ==
    \E p \in Scans :
        /\ auth[p].pc = "done"
        /\ auth[p].outcome = "result"
        /\ Len(auth[p].responses) = 2
        /\ auth[p].responses[1].kind = "INVALID_SESSION"
        /\ auth[p].refreshes = 1

\* C6. Cache hit.  A getSessionToken invocation that finds a session record
\* with more than the safety margin left returns the stored token, logs in
\* nowhere and writes nothing to the store.
C6_CacheHit ==
    \A p \in Scans :
        (auth[p].gst = "returned" /\ auth[p].hitTtl > SafetyMarginTicks) =>
            /\ auth[p].token = auth[p].hitToken
            /\ ~auth[p].didLogin
            /\ ~auth[p].didSet

\* A direct call returned the token of a record with two hours left.
C6_Witness ==
    \E p \in Scans :
        /\ auth[p].kind = "getSessionToken"
        /\ auth[p].pc = "done"
        /\ auth[p].gst = "returned"
        /\ auth[p].hitTtl * TickSeconds = 2 * 60 * 60
        /\ auth[p].token = auth[p].hitToken

C8_InvalidationForcesLogin ==
    \A p \in Scans :
        (auth[p].gst = "returned" /\ auth[p].afterRefresh) =>
            /\ auth[p].didLogin
            /\ auth[p].token > auth[p].issuedAtDelete
            /\ auth[p].token # auth[p].discarded

\* C8 as amended.  The token acquisition that follows the discard never
\* returns the discarded token; it performs a login, whose token is issued
\* after the discard, exactly when the store is still empty at its cache
\* read, and otherwise returns, without a login, the token that a concurrent
\* call stored after the discard.
C8_InvalidationNeverReturnsDiscarded ==
    \A p \in Scans :
        (auth[p].gst = "returned" /\ auth[p].afterRefresh) =>
            /\ auth[p].token # 0
            /\ auth[p].token # auth[p].discarded
            /\ IF auth[p].hitToken = 0
               THEN auth[p].didLogin /\ auth[p].token > auth[p].issuedAtDelete
               ELSE ~auth[p].didLogin /\ auth[p].token = auth[p].hitToken

\* A cached token was discarded and the acquisition that followed logged in.
C8_Witness ==
    \E p \in Scans :
        /\ auth[p].gst = "returned"
        /\ auth[p].afterRefresh
        /\ auth[p].discarded # 0
        /\ auth[p].didLogin
        /\ auth[p].token > auth[p].issuedAtDelete

\* C9. Login failure.  A getSessionToken invocation whose login fails ends
\* the call with an error and has written nothing to the store; and an
\* invocation that reads the store after such a failure, no write having
\* landed since the failed invocation's own read, finds no record and
\* attempts a login again.
C9_LoginFailureChangesNothing ==
    \A p \in Scans :
        /\ auth[p].gst = "threw" =>
              /\ auth[p].pc = "done"
              /\ auth[p].outcome = "error"
              /\ auth[p].hitToken = 0
              /\ ~auth[p].didSet
        /\ auth[p].afterFail =>
              /\ auth[p].hitToken = 0
              /\ auth[p].pc = "login" \/ auth[p].didLogin

\* After a failed login the following invocation attempted a login again.
C9_Witness ==
    \E p \in Scans : auth[p].afterFail /\ auth[p].didLogin

\* C10. Cold-cache race tolerance.  Every token a getSessionToken invocation
\* returns was issued by some login; and once no invocation is running, the
\* store holds exactly the token of the write that landed last, unless the
\* record was deleted or expired after that write.
C10_LastWriteWins ==
    /\ \A p \in Scans :
          auth[p].gst = "returned" => auth[p].token \in 1..issued
    /\ ( /\ \A p \in Scans : auth[p].gst # "running"
         /\ hist.lastSet # 0
         /\ ~hist.removed ) =>
          kv.session.token = hist.lastSet

\* Two calls raced on a cold cache, both logged in, and the store holds the
\* token that was issued first and written last.
C10_Witness ==
    \E p, q \in Scans :
        /\ p # q
        /\ auth[p].kind = "getSessionToken" /\ auth[q].kind = "getSessionToken"
        /\ auth[p].pc = "done" /\ auth[q].pc = "done"
        /\ auth[p].gst = "returned" /\ auth[q].gst = "returned"
        /\ auth[p].hitToken = 0 /\ auth[q].hitToken = 0
        /\ auth[p].didLogin /\ auth[q].didLogin
        /\ auth[p].token < auth[q].token
        /\ kv.session.token = auth[p].token
        /\ hist.lastSet = auth[p].token

---------------------------------------------------------------------------
(* The gate's thresholds and retention, checked under SpecGate *)

\* The call has got past its read of the store and its validation.
Decided(g) == g.pc \in {"markProcessed", "notify", "done"}

\* processArb goes on to, or has returned, processed:true.
Admitted(g) == g.pc \in {"markProcessed", "notify"} \/ g.result.processed

\* C11. Margin threshold.  For an id with no marker in the store and an
\* opportunity with sufficient liquidity, processArb accepts exactly when
\* the profit margin is at least 2% (200 basis points): exactly 2% is
\* accepted, anything below is rejected with the margin's reason.
C11_MarginThreshold ==
    \A p \in Scans :
        LET g == gate[p]
        IN  ( /\ Decided(g)
              /\ g.fresh
              /\ g.arb.layLiquidity >= g.arb.suggestedStake * g.arb.bookieOdds )
            => /\ Admitted(g) <=> g.arb.profitMargin >= 2 * 100
               /\ g.arb.profitMargin < 2 * 100 =>
                     g.result = [processed |-> FALSE,
                                 reason |-> "Profit margin is below minimum"]

\* A margin of exactly 2% was accepted while another call, one basis point
\* short with the same liquidity, was turned away for its margin.
C11_Witness ==
    \E p, q \in Scans :
        /\ gate[p].fresh /\ gate[p].result.processed
        /\ gate[p].arb.profitMargin = 2 * 100
        /\ gate[q].pc = "done" /\ gate[q].fresh
        /\ gate[q].arb.profitMargin = 2 * 100 - 1
        /\ gate[q].arb.layLiquidity >=
              gate[q].arb.suggestedStake * gate[q].arb.bookieOdds
        /\ gate[q].result.reason = "Profit margin is below minimum"

\* C12. Liquidity boundary.  For an id with no marker in the store and a
\* margin of at least 2%, processArb accepts exactly when layLiquidity is at
\* least suggestedStake * bookieOdds: equality is accepted, one cent less is
\* rejected with the liquidity reason.
C12_LiquidityBoundary ==
    \A p \in Scans :
        LET g == gate[p]
            required == g.arb.suggestedStake * g.arb.bookieOdds
        IN  (Decided(g) /\ g.fresh /\ g.arb.profitMargin >= 2 * 100)
            => /\ Admitted(g) <=> g.arb.layLiquidity >= required
               /\ g.arb.layLiquidity < required =>
                     g.result = [processed |-> FALSE,
                                 reason |-> "Insufficient liquidity"]

\* Liquidity of exactly the requirement was accepted while another call, one
\* cent short, was turned away for its liquidity.
C12_Witness ==
    \E p, q \in Scans :
        /\ gate[p].fresh /\ gate[p].result.processed
        /\ gate[p].arb.layLiquidity =
              gate[p].arb.suggestedStake * gate[p].arb.bookieOdds
        /\ gate[q].pc = "done" /\ gate[q].fresh
        /\ gate[q].arb.profitMargin >= 2 * 100
        /\ gate[q].arb.layLiquidity =
              gate[q].arb.suggestedStake * gate[q].arb.bookieOdds - 1
        /\ gate[q].result.reason = "Insufficient liquidity"

\* C13. Bounded memory.  A call that reads the store while the two hours
\* of an accepted call for its id are still running is rejected as "Already
\* processed"; a call for a valid opportunity whose id was marked before,
\* and that reads the store once those two hours have run out, is accepted
\* again, and its write leaves a marker that lives for the two hours that
\* follow.
C13_BoundedMemory ==
    \A p \in Scans :
        LET g == gate[p]
        IN  Decided(g) =>
               /\ ~g.fresh => g.pc = "done" /\ g.result = AlreadyProcessed
               /\ (g.again /\ g.fresh /\ validateArb(g.arb).valid) =>
                     Admitted(g)
               /\ g.result.processed =>
                     kv.processed[g.arb.id] =
                        Max(Range(accepted[g.arb.id]) \cup {0})

\* An id that was marked before, and whose window has run out, was accepted
\* again and carries a new marker.
C13_Witness ==
    \E p \in Scans :
        /\ gate[p].again /\ gate[p].fresh
        /\ gate[p].result.processed
        /\ kv.processed[gate[p].arb.id] > 0

---------------------------------------------------------------------------
(* The scans' claims, checked under SpecScan *)

\* C14. Manual mode.  Whatever the startup and the cron scans do, in mock
\* mode or in live mode, no placeOrders and no getAccountFunds request is
\* sent to the exchange: the requests in flight are at most the session
\* login, the catalogue search and the price-book lookup.
C14_ManualMode ==
    \A p \in Scans :
        scan[p].req \subseteq
            {"login", "listMarketCatalogue", "listMarketBook"}

\* In live mode an opportunity was accepted and its alert has gone out:
\* the point where an automatic lay would have been placed is behind.
C14_Witness ==
    \E p \in Scans :
        /\ ~scan[p].mockMode /\ scan[p].pc = "gate"
        /\ gate[p].pc = "done" /\ gate[p].result.processed
        /\ gate[p].alerted

\* C15. Per-event failure isolation.  When the processing of one event
\* fails with an exception, the events of the same sport that come after it
\* are still looked up in that scan: the catch finds none of them missed.
C15_PerEventIsolation ==
    \A p \in Scans : scan[p].failed = "event" => scan[p].missed = {}

\* C16. Per-sport failure isolation.  A failure while one sport key is
\* scanned is not handed on: scanSports ends only after fetchOdds has been
\* called for every sport key, in order; when fetchOdds itself failed, no
\* exchange call and no gate call was made for that sport; and once a sport
\* has failed no call is made for it any more.
C16_PerSportIsolation ==
    \A p \in Scans :
        LET r == scan[p]
        IN  /\ r.fetched = SubSeq(TierSports(p), 1, Len(r.fetched))
            /\ Len(r.fetched) = r.si
            /\ (r.pc = "done" /\ r.ran) => r.fetched = TierSports(p)
            /\ r.failed = "fetchOdds" => ~r.called
            /\ r.failed # "none" =>
                  /\ r.pc \in {"catch", "sport", "done"}
                  /\ gate[p].pc = "idle"
                  /\ r.req = {}

\* fetchOdds failed for a sport that is not the last: no call was made for
\* it, and the scan is back at its loop with sport keys left to scan.
C16_Witness ==
    \E p \in Scans :
        /\ scan[p].failed = "fetchOdds" /\ scan[p].pc = "sport"
        /\ ~scan[p].called
        /\ scan[p].si < Len(TierSports(p))

\* The event ids of the games of the sport, in list order.
EventIds(r) == [i \in 1..Len(r.games) |-> r.games[i].eventId]

\* C17. In-scan ordering.  Within one sport the games are handled in list
\* order, one at a time: when the market lookup of a game is issued every
\* game before it is done with, its gate call and notification included, and
\* while a game's gate call runs no later game has been looked up.
C17_InScanOrdering ==
    \A p \in Scans :
        LET r == scan[p]
        IN  /\ r.looked = SubSeq(EventIds(r), 1, Len(r.looked))
            /\ r.handled = SubSeq(EventIds(r), 1, Len(r.handled))
            /\ r.pc \in {"catalogue", "book"} =>
                  /\ gate[p].pc = "idle"
                  /\ Len(r.looked) = r.gi
                  /\ Len(r.handled) = r.gi - 1
            /\ (r.pc = "gate" /\ ~r.mockMode) =>
                  /\ Len(r.looked) = r.gi
                  /\ Len(r.handled) = r.gi - 1

\* The gate call of the first of two games has returned its decision, its
\* alert sent, and the second game has not been looked up yet.
C17_Witness ==
    \E p \in Scans :
        /\ scan[p].pc = "gate" /\ ~scan[p].mockMode
        /\ Len(scan[p].games) = 2 /\ scan[p].gi = 1
        /\ gate[p].pc = "done" /\ gate[p].alerted
        /\ scan[p].looked = <<"ev1">>

---------------------------------------------------------------------------
(* The detectors' claims, checked under SpecDetect *)

\* The opportunities the detector that was called has produced.
Produced ==
    (IF det.opportunity = NoOpportunity THEN {} ELSE {det.opportunity})
    \cup Range(det.opportunities)

\* C18. Opportunity invariant.  Every opportunity a detector produces with
\* a positive profit margin has bookieOdds above layOdds and an implied
\* probability sum (1 / bookieOdds) + (1 / layOdds) below 1.
C18_OpportunityInvariant ==
    \A o \in Produced :
        o.profitMargin > 0 =>
            /\ o.bookieOdds > o.layOdds
            /\ 100 * (o.bookieOdds + o.layOdds) < o.bookieOdds * o.layOdds

\* The runners of the market that carry the home team's name or a part of it.
HomeRunners ==
    {i \in DOMAIN det.market.runners :
        det.market.runners[i].runnerName \in {HomeTeam, <<"kings">>}}

\* The quotes of the game for the home team in the h2h market.
HomeQuotes ==
    {i \in DOMAIN det.game.bookmakers :
        /\ det.game.bookmakers[i].market = "h2h"
        /\ det.game.bookmakers[i].outcome = det.game.homeTeam}

\* (1 / back) + (1 / lay) < 0.98, odds in hundredths.
Below98(back, lay) == 10000 * (back + lay) < 98 * back * lay

HomeBookies == {det.game.bookmakers[i].bookie : i \in HomeQuotes}

QuotesOf(b) == {i \in HomeQuotes : det.game.bookmakers[i].bookie = b}

HighestOf(b) == Max({det.game.bookmakers[i].odds : i \in QuotesOf(b)})

FirstOf(b) == Min(QuotesOf(b))

\* C20. First-acceptable policy.  The opportunity detectArb returns carries
\* the highest home h2h price of its bookmaker, with the key of the first
\* quote that reached that price; that price passes the test, and no
\* bookmaker that appears earlier in the list has a highest price that
\* passes, whatever later bookmakers offer.
C20_FirstAcceptable ==
    (det.fn = "detectArb" /\ det.opportunity # NoOpportunity) =>
        LET o == det.opportunity
            top == Min({i \in QuotesOf(o.bookie) :
                           det.game.bookmakers[i].odds = HighestOf(o.bookie)})
        IN  /\ o.bookie \in HomeBookies
            /\ o.bookieOdds = HighestOf(o.bookie)
            /\ o.id = det.game.eventId \o "_"
                         \o det.game.bookmakers[top].bookieKey \o "_home"
            /\ Below98(o.bookieOdds, o.layOdds)
            /\ \A b \in HomeBookies :
                  FirstOf(b) < FirstOf(o.bookie) =>
                      ~Below98(HighestOf(b), o.layOdds)

\* The first bookmaker was returned although a later one offers a higher
\* price that passes as well.
C20_Witness ==
    /\ det.fn = "detectArb"
    /\ det.opportunity # NoOpportunity
    /\ \E b \in HomeBookies :
          /\ FirstOf(b) > FirstOf(det.opportunity.bookie)
          /\ HighestOf(b) > det.opportunity.bookieOdds
          /\ Below98(HighestOf(b), det.opportunity.layOdds)

---------------------------------------------------------------------------

\* The quotes of the game an opportunity may have been built from: those of
\* its bookmaker at its price.
QuotesBehind(o) ==
    {i \in DOMAIN det.game.bookmakers :
        /\ det.game.bookmakers[i].bookie = o.bookie
        /\ det.game.bookmakers[i].odds = o.bookieOdds}

\* C21. Identifier stability.  The id of every opportunity a detector
\* produces is made of the event id and the discriminator alone: the event
\* id and the outcome name for detectArbs and buildArbOpportunity, the event
\* id and the bookmaker key (with the suffix "home") for detectArb; so
\* opportunities of one event and one discriminator carry one id whatever
\* their prices and liquidity.
C21_IdentifierStability ==
    /\ det.fn \in {"detectArbs", "buildArbOpportunity"} =>
          \A o \in Produced :
              \E i \in QuotesBehind(o) :
                  o.id = det.game.eventId \o "_"
                            \o Join(det.game.bookmakers[i].outcome)
    /\ det.fn = "detectArb" =>
          \A o \in Produced :
              \E i \in QuotesBehind(o) :
                  o.id = det.game.eventId \o "_"
                            \o det.game.bookmakers[i].bookieKey \o "_home"

\* detectArbs has produced two opportunities of one event and one outcome
\* at different prices, and both carry the same id.
C21_Witness ==
    /\ det.fn = "detectArbs"
    /\ \E a, b \in DOMAIN det.opportunities :
          /\ det.opportunities[a].bookieOdds
                # det.opportunities[b].bookieOdds
          /\ det.opportunities[a].id = det.opportunities[b].id
          /\ det.opportunities[a].id = "ev1_sydney kings"

---------------------------------------------------------------------------

\* The responses that are failures other than INVALID_SESSION.
NonSessionFailures == {"httpError", "otherError", "noResult"}

\* The last response a makeRequest call has received is such a failure.
FailedOtherwise(a) ==
    /\ a.kind = "makeRequest"
    /\ a.responses # <<>>
    /\ a.responses[Len(a.responses)].kind \in NonSessionFailures

\* C24. Non-session failures are not retried.  When the response to a send
\* is a non-OK status, an error other than INVALID_SESSION, or a body
\* without a result, makeRequest ends with an error at that response: no
\* send and no refreshSession follows it (one send and no refresh at all
\* when it is the first response), and the step that handles it leaves the
\* stored session and the tokens issued as they were.
C24_NonSessionFailuresNotRetried ==
    /\ [](\A p \in Scans :
            FailedOtherwise(auth[p]) =>
                /\ auth[p].pc = "done"
                /\ auth[p].outcome = "error"
                /\ auth[p].sends = Len(auth[p].responses)
                /\ auth[p].refreshes =
                      Cardinality({i \in DOMAIN auth[p].responses :
                          auth[p].responses[i].kind = "INVALID_SESSION"})
                /\ auth[p].responses[1].kind \in NonSessionFailures =>
                      auth[p].sends = 1 /\ auth[p].refreshes = 0)
    /\ [][\A p \in Scans :
            (auth[p].pc = "send" /\ FailedOtherwise(auth'[p])) =>
                (kv' = kv /\ issued' = issued)]_vars

\* A call has failed on an HTTP error at its first send, and the token it
\* sent is still the stored one.
C24_Witness ==
    \E p \in Scans :
        /\ FailedOtherwise(auth[p])
        /\ auth[p].responses = <<[kind |-> "httpError", value |-> "none"]>>
        /\ auth[p].token # 0
        /\ kv.session.token = auth[p].token

---------------------------------------------------------------------------

\* The 24 hours of the README, in ticks.
DayTicks == (24 * 60 * 60) \div TickSeconds

\* A step that stores the token of a successful login stores it for 24
\* hours, and a step of time alone takes one tick off a record that has
\* more than one left.
StoredForADay ==
    /\ \A p \in Scans :
          (auth[p].pc = "setSession" /\ auth'[p].pc # "setSession") =>
              kv'.session = [token |-> auth[p].token, ttl |-> DayTicks]
    /\ ((\A p \in Scans : auth'[p] = auth[p]) /\ kv.session.ttl > 1) =>
          kv'.session = [kv.session EXCEPT !.ttl = @ - 1]

\* C30. Session record lifetime.  The step that stores the token of a
\* successful login stores it for 24 hours; the record is retrievable while
\* any of that time is left, and time alone removes it only when the last
\* of it has passed.
C30_SessionLifetime ==
    [](kv.session.ttl > 0 => kv.session.token # 0) /\ [][StoredForADay]_vars

---------------------------------------------------------------------------

\* The last gateway call of a service call has thrown.
LastCallFailed(r) == r.calls # <<>> /\ r.calls[Len(r.calls)] = "error"

\* C22. findMarket reports absence, never an error.  A findMarket call
\* never throws; it returns null when the catalogue search returns no
\* market, when the price-book lookup returns no book, and when a gateway
\* call fails, an authentication failure included; it returns a market only
\* when both calls returned a non-empty array, and then the merged one.
C22_FindMarketReportsAbsence ==
    \A p \in Scans :
        LET r == svc[p]
        IN  r.fn = "findMarket" =>
              /\ ~r.threw
              /\ r.pc = "done" =>
                    /\ r.returned \in {"null", "market"}
                    /\ LastCallFailed(r) => r.returned = "null"
                    /\ (~LastCallFailed(r) /\ r.listed = <<>>) =>
                          r.returned = "null"
                    /\ r.returned = "market" =>
                          /\ r.calls = <<"result", "result">>
                          /\ r.listed # <<>>
                          /\ r.market = mergeMarket(r.catalogue, r.listed[1])

\* A findMarket call has returned null because the login of its second
\* gateway call failed.
C22_Witness ==
    \E p \in Scans :
        /\ svc[p].fn = "findMarket"
        /\ svc[p].pc = "done"
        /\ svc[p].calls = <<"result", "error">>
        /\ svc[p].failure = "Betfair Login Failed"
        /\ svc[p].returned = "null"
        /\ ~svc[p].threw

\* The order went through: both gateway calls returned, the order response
\* and its first instruction report are SUCCESS, and the report has a bet id.
Placed(r) ==
    /\ r.calls = <<"result", "result">>
    /\ r.order.status = "SUCCESS"
    /\ r.order.instructionReports # <<>>
    /\ r.order.instructionReports[1].status = "SUCCESS"
    /\ r.order.instructionReports[1].betId # ""

\* C23. placeLayBet never throws.  Every placeLayBet call ends with a
\* LayBetResult: SUCCESS with the bet id of the first instruction report
\* exactly when the order went through, FAILED with a reason otherwise; lay
\* odds of 1 or less fail before any gateway call.
C23_PlaceLayBetNeverThrows ==
    \A p \in Scans :
        LET r == svc[p]
        IN  r.fn = "placeLayBet" =>
              /\ ~r.threw
              /\ r.pc = "done" =>
                    /\ r.layBet.status \in {"SUCCESS", "FAILED"}
                    /\ r.layBet.status = "SUCCESS" <=> Placed(r)
                    /\ r.layBet.status = "SUCCESS" =>
                          r.layBet.betId = r.order.instructionReports[1].betId
                    /\ r.layBet.status = "FAILED" => r.layBet.error # ""
                    /\ r.layOdds <= 100 =>
                          r.layBet.status = "FAILED" /\ r.calls = <<>>

\* The exchange answered SUCCESS without an instruction report, and the
\* call has returned FAILED.
C23_Witness ==
    \E p \in Scans :
        /\ svc[p].fn = "placeLayBet"
        /\ svc[p].pc = "done"
        /\ svc[p].order.status = "SUCCESS"
        /\ svc[p].order.instructionReports = <<>>
        /\ svc[p].layBet.status = "FAILED"
        /\ svc[p].layBet.error = "Failed to place bet"

---------------------------------------------------------------------------

\* C25. Sign of the profit margin.  calculateProfitMargin(back, lay) is
\* above 0 whenever back > lay > 0, is 0 or less whenever back <= lay, and
\* is 0 whenever lay <= 0.
C25_MarginSign ==
    util.fn = "calculateProfitMargin" =>
        /\ (util.backOdds > util.layOdds /\ util.layOdds > 0) =>
              util.margin > 0
        /\ util.backOdds <= util.layOdds => util.margin <= 0
        /\ util.layOdds <= 0 => util.margin = 0

\* A back price of 2.01 over a lay price of 2.00: a margin of half a percent.
C25_Witness ==
    /\ util.fn = "calculateProfitMargin"
    /\ util.backOdds = 201
    /\ util.layOdds = 200
    /\ util.margin = 50

\* C26. calculateLayStake fails with an error for every layOdds of 1 or
\* less and returns liability / (layOdds - 1), to the cent below, for every
\* layOdds above 1; no value it returns was computed with a zero or
\* negative divisor.
C26_LayStakeDivisor ==
    util.fn = "calculateLayStake" =>
        LET r == util.layStake
        IN  /\ util.layOdds <= 100 =>
                  r.threw /\ util.error = "Lay odds must be greater than 1"
            /\ util.layOdds > 100 =>
                  /\ ~r.threw
                  /\ r.value * (util.layOdds - 100) <= util.liability * 100
                  /\ util.liability * 100 < (r.value + 1) * (util.layOdds - 100)
            /\ ~r.threw => r.divisor > 0

\* A liability of $300 at lay odds of 2.30: a stake of $230.76.
C26_Witness ==
    /\ util.fn = "calculateLayStake"
    /\ util.liability = 300 * 100
    /\ util.layOdds = 230
    /\ ~util.layStake.threw
    /\ util.layStake.value = 23076

\* C27. Grey Man stake range.  For min < max, calculateGreyManStake ends,
\* and the stake it returns is an integer of min..max that is divisible
\* neither by 50 nor by 100.
C27_GreyManStakeRange ==
    /\ []((util.fn = "calculateGreyManStake" /\ util.pc = "done") =>
            /\ util.stake \in util.min .. util.max
            /\ util.stake % 50 # 0
            /\ util.stake % 100 # 0)
    /\ ((util.fn = "calculateGreyManStake" /\ util.pc = "sample"
            /\ util.min < util.max)
          ~> (util.fn = "calculateGreyManStake" /\ util.pc = "done"))

\* A stake of the range 280..420 has been returned after a draw had been
\* thrown back.
C27_Witness ==
    /\ util.fn = "calculateGreyManStake"
    /\ util.pc = "done"
    /\ util.min = 280
    /\ util.max = 420
    /\ util.rejected
    /\ util.stake = 419

\* C28. Degenerate Grey Man range.  Called with min = max on a multiple of
\* 50, calculateGreyManStake ends, with an InvalidArgument error.
C28_DegenerateRangeFails ==
    (util.fn = "calculateGreyManStake" /\ util.pc = "sample"
        /\ util.min = util.max /\ util.min % 50 = 0)
      ~> (util.pc = "done" /\ util.error = "InvalidArgument")

---------------------------------------------------------------------------

\* The names that go together, read off the names themselves: "Lakers",
\* in any case and padding, with "Lakers" and "Los Angeles Lakers";
\* "Celtics" with "Celtics"; "Celtis" with none.
Alike(outcome, runnerName) ==
    \/ outcome \in {Lakers, PaddedLakers}
         /\ runnerName \in {Lakers, LosAngelesLakers}
    \/ outcome = Celtics /\ runnerName = Celtics

\* C29. Runner matching is first-match in list order.  findMatchingRunner
\* returns the first runner of the list whose name goes with the outcome
\* name, whatever exact matches and prices come later, and null (0) when
\* none does.
C29_FirstMatch ==
    util.fn = "findMatchingRunner" =>
        LET alike == {i \in DOMAIN util.runners :
                         Alike(util.outcome, util.runners[i].runnerName)}
        IN  util.runner = IF alike = {} THEN 0 ELSE Min(alike)

\* " LAKERS " is matched to "Los Angeles Lakers", the second runner, though
\* the third is "Lakers" itself.
C29_Witness ==
    /\ util.fn = "findMatchingRunner"
    /\ util.outcome = PaddedLakers
    /\ Len(util.runners) = 3
    /\ util.runners[1].runnerName = Celtics
    /\ util.runners[2].runnerName = LosAngelesLakers
    /\ util.runners[3].runnerName = Lakers
    /\ util.runner = 2

---------------------------------------------------------------------------

\* config.ts: GREY_MAN_MIN_STAKE and GREY_MAN_MAX_STAKE, by default.
greyManMinStake == 280

greyManMaxStake == 420

\* C31. Stake is assigned after construction.  The opportunity detectArb
\* hands to the scan carries suggestedStake 0; whenever the gate holds an
\* opportunity, its stake is one of greyManMinStake..greyManMaxStake that is
\* not a multiple of 50, and the liquidity verdict of the gate is the one
\* for that stake, not for the stake the opportunity was built with.
C31_StakeAfterConstruction ==
    \A p \in Scans :
        LET g == gate[p]
        IN  g.pc # "idle" =>
              /\ g.arb.suggestedStake \in greyManMinStake .. greyManMaxStake
              /\ g.arb.suggestedStake % 50 # 0
              /\ ~scan[p].mockMode => g.built = 0
              /\ g.result.reason = "Insufficient liquidity" =>
                    g.arb.layLiquidity
                        < g.arb.suggestedStake * g.arb.bookieOdds
              /\ g.result.processed =>
                    g.arb.layLiquidity
                        >= g.arb.suggestedStake * g.arb.bookieOdds

\* An opportunity built by detectArb with stake 0 was turned away for
\* liquidity one cent short of what the assigned stake needs.
C31_Witness ==
    \E p \in Scans :
        /\ ~scan[p].mockMode
        /\ gate[p].pc = "done"
        /\ gate[p].built = 0
        /\ gate[p].arb.suggestedStake = 281
        /\ gate[p].arb.layLiquidity = 70249
        /\ gate[p].result.reason = "Insufficient liquidity"

---------------------------------------------------------------------------

\* C32. Notifier only after acceptance.  Whenever a call has passed its
\* opportunity to sendTelegramAlert, processArb has returned processed:true
\* for it and a marker has been written for its id; a call that processArb
\* turned away never reaches the notifier.
C32_NotifierAfterAcceptance ==
    \A p \in Scans :
        /\ gate[p].alerted =>
              /\ gate[p].result.processed
              /\ gate[p].arb.id \in marked
        /\ (gate[p].pc = "done" /\ ~gate[p].result.processed) =>
              ~gate[p].alerted
        /\ gate[p].pc = "notify" => gate[p].result.processed

\* One scan has notified its accepted opportunity while the other, turned
\* away for the same id as already processed, has ended without an alert.
C32_Witness ==
    \E p, q \in Scans :
        /\ p # q
        /\ gate[p].alerted
        /\ gate[p].result.processed
        /\ gate[q].pc = "done"
        /\ gate[q].arb.id = gate[p].arb.id
        /\ gate[q].result.reason = "Already processed"
        /\ ~gate[q].alerted

---------------------------------------------------------------------------

\* C33. Precedence of rejection reasons.  A call that read its id while a
\* marker of an earlier acceptance was live is rejected as already
\* processed, whatever its margin and liquidity; a call not so rejected
\* whose margin is below the minimum gets the margin reason, also when its
\* liquidity is short; the liquidity reason is given only to a call whose
\* id had no live marker and whose margin is at least the minimum.
C33_ReasonPrecedence ==
    \A p \in Scans :
        LET g == gate[p]
            short == g.arb.layLiquidity
                         < g.arb.suggestedStake * g.arb.bookieOdds
        IN  g.pc \in {"markProcessed", "notify", "done"} =>
              /\ g.priorLive => g.result.reason = "Already processed"
              /\ g.result.reason = "Already processed" => g.again
              /\ (g.result.reason # "Already processed"
                    /\ g.arb.profitMargin < MIN_PROFIT_MARGIN) =>
                    g.result.reason = "Profit margin is below minimum"
              /\ g.result.reason = "Profit margin is below minimum" =>
                    g.arb.profitMargin < MIN_PROFIT_MARGIN
              /\ g.result.reason = "Insufficient liquidity" =>
                    /\ ~g.priorLive
                    /\ g.arb.profitMargin >= MIN_PROFIT_MARGIN
                    /\ short

\* An unseen opportunity with both a margin below the minimum and short
\* liquidity got the margin reason, and one with a live marker and both
\* faults was rejected as already processed.
C33_Witness ==
    \E p, q \in Scans :
        /\ gate[p].pc = "done"
        /\ gate[p].arb.profitMargin = 199
        /\ gate[p].arb.layLiquidity = 70249
        /\ gate[p].result.reason = "Profit margin is below minimum"
        /\ gate[q].pc = "done"
        /\ gate[q].priorLive
        /\ gate[q].arb.profitMargin = 199
        /\ gate[q].arb.layLiquidity = 70249
        /\ gate[q].result.reason = "Already processed"

---------------------------------------------------------------------------

\* The runners of a catalogue with a selection id.
Named(catalogue, selectionId) ==
    {k \in DOMAIN catalogue.runners :
        catalogue.runners[k].selectionId = selectionId}

\* C34. findMarket two-step merge.  The price-book request is under way
\* only after the catalogue search has returned a market, and asks for that
\* market's id alone; a market that is returned has exactly the runners of
\* the price book, in its order and with its prices, each under the name
\* the catalogue gives its selection id, or "Unknown" where it gives none;
\* a catalogue runner that the price book lacks is not in it.
C34_TwoStepMerge ==
    \A p \in Scans :
        LET r == svc[p]
        IN  r.fn = "findMarket" =>
              /\ r.pc = "book" =>
                    /\ r.calls = <<"result">>
                    /\ r.listed # <<>>
                    /\ r.marketIds = <<r.listed[1].marketId>>
              /\ Len(r.calls) = 2 =>
                    r.calls[1] = "result" /\ r.marketIds # <<>>
              /\ r.marketIds = <<>> => Len(r.calls) <= 1
              /\ r.returned = "market" =>
                    LET book == r.listed[1]
                    IN  /\ r.market.marketId = r.catalogue.marketId
                        /\ r.marketIds = <<r.catalogue.marketId>>
                        /\ DOMAIN r.market.runners = DOMAIN book.runners
                        /\ \A i \in DOMAIN book.runners :
                              LET m == r.market.runners[i]
                                  named == Named(r.catalogue, m.selectionId)
                              IN  /\ m.selectionId = book.runners[i].selectionId
                                  /\ m.availableToLay
                                        = book.runners[i].availableToLay
                                  /\ named = {} =>
                                        m.runnerName = <<"Unknown">>
                                  /\ named # {} =>
                                        m.runnerName =
                                          r.catalogue
                                            .runners[Min(named)].runnerName
                        /\ \A k \in DOMAIN r.catalogue.runners :
                              (\A i \in DOMAIN book.runners :
                                  book.runners[i].selectionId
                                      # r.catalogue.runners[k].selectionId)
                              => \A i \in DOMAIN r.market.runners :
                                    r.market.runners[i].selectionId
                                        # r.catalogue.runners[k].selectionId

\* The catalogue listed the draw first and the home team last; the market
\* returned has the two runners of the price book, home team first, and no
\* draw.
C34_Witness ==
    \E p \in Scans :
        /\ svc[p].fn = "findMarket"
        /\ svc[p].returned = "market"
        /\ svc[p].catalogue = DrawCatalogue
        /\ svc[p].market.marketId = "1.2"
        /\ Len(svc[p].market.runners) = 2
        /\ svc[p].market.runners[1].runnerName = HomeTeam
        /\ svc[p].market.runners[2].runnerName = AwayTeam

\* The catalogue had no runner for the home team's selection id: the
\* market returned names it "Unknown".
C34_WitnessUnknown ==
    \E p \in Scans :
        /\ svc[p].fn = "findMarket"
        /\ svc[p].returned = "market"
        /\ svc[p].market.runners[1].selectionId = 1
        /\ svc[p].market.runners[1].runnerName = <<"Unknown">>

---------------------------------------------------------------------------

\* C35. Order placement guards run in order.  A placeOrders request is
\* under way, or has ended, only after the lay stake was computed from lay
\* odds above 1 and the balance query returned an available balance of at
\* least the liability; with lay odds of 1 or less the call has FAILED
\* without any request; with a balance below the liability the call has
\* FAILED after the balance query alone.
C35_GuardsInOrder ==
    \A p \in Scans :
        LET r == svc[p]
        IN  r.fn = "placeLayBet" =>
              /\ r.layOdds <= 100 =>
                    /\ r.pc = "done"
                    /\ r.layBet.status = "FAILED"
                    /\ r.calls = <<>>
                    /\ r.layStake < 0 /\ r.balance < 0
                    /\ auth[p].pc = "idle"
              /\ r.balance >= 0 /\ r.balance < r.liabilityNeeded =>
                    /\ r.pc = "done"
                    /\ r.layBet.status = "FAILED"
                    /\ r.calls = <<"result">>
                    /\ auth[p].pc = "idle"
              /\ r.pc = "orders" \/ Len(r.calls) = 2 =>
                    /\ r.layOdds > 100
                    /\ r.layStake * (r.layOdds - 100)
                          <= r.liabilityNeeded * 100
                    /\ r.layStake >= 0
                    /\ r.calls[1] = "result"
                    /\ r.balance >= r.liabilityNeeded
              /\ r.pc = "funds" => r.calls = <<>> /\ r.layStake >= 0
              /\ Len(r.calls) <= 2

\* An order was sent with the balance exactly the liability.
C35_Witness ==
    \E p \in Scans :
        /\ svc[p].fn = "placeLayBet"
        /\ svc[p].pc = "orders"
        /\ svc[p].balance = svc[p].liabilityNeeded
        /\ svc[p].layStake > 0

\* The balance was one cent short: FAILED after the balance query alone.
C35_WitnessShort ==
    \E p \in Scans :
        /\ svc[p].fn = "placeLayBet"
        /\ svc[p].pc = "done"
        /\ svc[p].balance = svc[p].liabilityNeeded - 1
        /\ svc[p].layBet.status = "FAILED"
        /\ svc[p].calls = <<"result">>

\* Lay odds of exactly 1: FAILED without a request.
C35_WitnessOdds ==
    \E p \in Scans :
        /\ svc[p].fn = "placeLayBet"
        /\ svc[p].pc = "done"
        /\ svc[p].layOdds = 100
        /\ svc[p].layBet.status = "FAILED"
        /\ svc[p].calls = <<>>

---------------------------------------------------------------------------

ValidationReasons == {"Profit margin is below minimum", "Insufficient liquidity"}

\* The step on which processArb returns processed:false writes nothing, and
\* when the reason is the margin or the liquidity the id has no marker; a
\* call for an id that this scan's call before it turned away for margin
\* or liquidity goes on to its write when it passes the validation and no
\* marker is there.
RejectionWritesNothing ==
    \A p \in Scans :
        /\ (gate[p].pc = "isProcessed" /\ gate'[p].pc = "done") =>
              /\ ~gate'[p].result.processed
              /\ kv' = kv
              /\ gate'[p].result.reason \in ValidationReasons =>
                    /\ kv'.processed[gate[p].arb.id] = 0
                    /\ gate'[p].turned = gate[p].arb.id
        /\ ( /\ gate[p].pc = "isProcessed"
             /\ gate[p].turned = gate[p].arb.id
             /\ validateArb(gate[p].arb).valid
             /\ gate'[p].pc # "isProcessed" ) =>
              IF kv.processed[gate[p].arb.id] = 0
              THEN gate'[p].pc = "markProcessed"
              ELSE /\ gate'[p].result.reason = "Already processed"
                   /\ accepted[gate[p].arb.id] # <<>>
        /\ (gate[p].pc = "markProcessed" /\ gate'[p].pc # "markProcessed") =>
              gate'[p].result.processed

\* C36. Rejection leaves the store unchanged.  A processArb call that
\* returns processed:false writes nothing to the store: every marker in the
\* store is the marker of an accepted call, a call that has returned a
\* validation reason left its id as it found it, and a later opportunity
\* with the id of one turned away for margin or liquidity, passing the
\* validation, is accepted.
C36_RejectionLeavesStore ==
    /\ [](\A i \in DOMAIN kv.processed :
            kv.processed[i] > 0 =>
               /\ accepted[i] # <<>>
               /\ kv.processed[i] = Max(Range(accepted[i])))
    /\ [](\A p \in Scans :
            (gate[p].pc = "done" /\ ~gate[p].alerted) =>
               ~gate[p].result.processed)
    /\ [][RejectionWritesNothing]_vars

\* An id that this scan's call before turned away, with no acceptance of it
\* ever, has been accepted by the call after.
C36_Witness ==
    \E p \in Scans :
        /\ gate[p].pc = "notify"
        /\ gate[p].result.processed
        /\ gate[p].turned = gate[p].arb.id
        /\ gate[p].fresh
        /\ Len(accepted[gate[p].arb.id]) = 1

---------------------------------------------------------------------------

\* The scans whose last accepted opportunity had this id and a notification
\* that failed, the marker of the id in the store ever since.
Undelivered(id) == {r \in Scans : gate[r].unsent = id}

\* The notifier's false changes nothing in the store and the call only
\* returns after it; while the id is undelivered every call that reads the
\* store for it is turned away as already processed and goes no further.
NotCompensated ==
    \A p \in Scans :
        /\ (gate[p].pc = "notify" /\ gate'[p].pc # "notify") =>
              /\ kv' = kv
              /\ gate'[p].pc = "done"
              /\ gate'[p].alerted
              /\ (~gate'[p].sent /\ gate[p].window > 0) =>
                    gate'[p].unsent = gate[p].arb.id
        /\ gate[p].pc = "done" =>
              /\ gate'[p].pc \in {"done", "idle"}
              /\ gate'[p].sent = gate[p].sent \/ gate'[p].pc = "idle"
              /\ kv'.processed[gate[p].arb.id]
                    >= Dec(kv.processed[gate[p].arb.id])
        /\ ( /\ gate[p].pc = "isProcessed"
             /\ gate'[p].pc # "isProcessed"
             /\ Undelivered(gate[p].arb.id) # {} ) =>
              /\ gate'[p].pc = "done"
              /\ gate'[p].result =
                    [processed |-> FALSE, reason |-> "Already processed"]

\* C37. A failed notification is not compensated.  When processArb has
\* accepted an opportunity and sendTelegramAlert returns false, the marker
\* stays in the store until its retention runs out and the call returns
\* without another attempt; every later detection of the id in that window
\* is turned away as "Already processed", and none of them reaches the
\* notifier.
C37_FailedNotificationNotCompensated ==
    /\ [](\A p \in Scans :
            gate[p].unsent # "" =>
               /\ gate[p].window > 0
               /\ kv.processed[gate[p].unsent] >= gate[p].window)
    /\ [][NotCompensated]_vars

\* The scan whose notification of the id failed has detected it again in
\* the window, after time has passed, and was turned away.
C37_Witness ==
    \E p \in Scans :
        /\ gate[p].pc = "done"
        /\ gate[p].unsent = gate[p].arb.id
        /\ gate[p].result.reason = "Already processed"
        /\ ~gate[p].alerted
        /\ kv.processed[gate[p].arb.id] = KvExpiryTicks - 1
        /\ Len(accepted[gate[p].arb.id]) = 1

---------------------------------------------------------------------------

\* C38. Detector and gate agree on margin.  Every opportunity detectArb
\* returns has an implied probability (1 / back) + (1 / lay) below 0.98
\* and the profit margin 1 / impliedProb - 1, which is above 2%; with any
\* stake of the grey-man range validateArb does not turn it away for its
\* margin: it is valid or short of liquidity.
C38_DetectorAndGateAgree ==
    det.fn = "detectArb" =>
        \A o \in Produced :
            LET b == o.bookieOdds
                l == o.layOdds
            IN  /\ b > 0 /\ l > 0
                /\ 100 * 100 * (b + l) < 98 * b * l
                /\ (o.profitMargin + 100 * 100) * (b + l) <= 100 * b * l
                /\ 100 * b * l < (o.profitMargin + 100 * 100 + 1) * (b + l)
                /\ o.profitMargin > MIN_PROFIT_MARGIN
                /\ \A stake \in greyManMinStake..greyManMaxStake :
                      validateArb(GateArb(o, stake)).reason
                          \in {"", "Insufficient liquidity"}

\* detectArb has returned an opportunity at 2.10 over 2.05, a margin of
\* 3.7%, which the gate turns away for its liquidity.
C38_Witness ==
    /\ det.fn = "detectArb"
    /\ det.opportunity # NoOpportunity
    /\ det.opportunity.bookieOdds = 210
    /\ det.opportunity.layOdds = 205
    /\ det.opportunity.profitMargin = 373
    /\ validateArb(GateArb(det.opportunity, greyManMinStake)).reason
          = "Insufficient liquidity"

---------------------------------------------------------------------------

\* The login of a refresh fails: the call ends with the error on that step,
\* nothing is sent again and nothing is written; and a store without a
\* session only gets one by the store write of a login that succeeded.
RefreshFailurePropagates ==
    /\ \A p \in Scans :
          ( /\ auth[p].pc = "login" /\ auth[p].afterRefresh
            /\ auth'[p].pc # "login" /\ issued' = issued ) =>
              /\ auth'[p].pc = "done"
              /\ auth'[p].outcome = "error"
              /\ auth'[p].sends = auth[p].sends
              /\ kv' = kv
    /\ (kv.session.token = 0 /\ kv'.session.token # 0) =>
          \E q \in Scans :
              /\ auth[q].pc = "setSession"
              /\ auth[q].didLogin
              /\ auth[q].token \in 1..issued
              /\ kv'.session.token = auth[q].token

\* C39. Failed refresh leaves no session.  When a gateway call has seen
\* INVALID_SESSION and the login inside refreshSession has failed, the call
\* has ended with the error, every request it sent has been answered and the
\* last answer is the INVALID_SESSION, the token it discarded is not in the
\* store and the call has stored nothing; the session key is absent unless
\* a successful login's write has landed since the discard.
C39_FailedRefreshLeavesNoSession ==
    /\ [](\A p \in Scans :
            ( /\ auth[p].kind = "makeRequest"
              /\ auth[p].gst = "threw" /\ auth[p].afterRefresh ) =>
                /\ auth[p].pc = "done"
                /\ auth[p].outcome = "error"
                /\ auth[p].sends = Len(auth[p].responses)
                /\ auth[p].responses[Len(auth[p].responses)].kind
                      = "INVALID_SESSION"
                /\ auth[p].hitToken = 0
                /\ ~auth[p].didSet
                /\ auth[p].discarded # 0 =>
                      kv.session.token # auth[p].discarded
                /\ hist.removed => kv.session = NoSession
                /\ kv.session # NoSession =>
                      /\ ~hist.removed
                      /\ kv.session.token = hist.lastSet)
    /\ [][RefreshFailurePropagates]_vars

\* A call whose cached token was rejected has discarded it, failed to log
\* in, and ended with the error; the store holds no session.
C39_Witness ==
    \E p \in Scans :
        /\ auth[p].kind = "makeRequest"
        /\ auth[p].pc = "done"
        /\ auth[p].gst = "threw" /\ auth[p].afterRefresh
        /\ auth[p].discarded # 0
        /\ auth[p].outcome = "error"
        /\ auth[p].sends = 1
        /\ kv.session = NoSession

---------------------------------------------------------------------------

\* The calls about to send their request again after an INVALID_SESSION
\* response, the token for it in hand.
Resending == {p \in Scans : auth[p].pc = "send" /\ auth[p].rejected # 0}

\* C40 as stated.  In every interleaving the request sent again carries a
\* token of a login that completed after the INVALID_SESSION response was
\* received, never the token that was rejected.
C40_RetryCarriesFreshToken ==
    \A p \in Resending :
        /\ auth[p].token > auth[p].issuedAtResponse
        /\ auth[p].token # auth[p].rejected

\* C40 as amended.  The request sent again never carries the token that was
\* rejected; it carries the token of a login that completed after the
\* response whenever the call logged in itself, and otherwise the token it
\* found in the store, written there after the discard, whose login can
\* have completed before the response.
C40_RetryNeverCarriesRejected ==
    \A p \in Resending :
        /\ auth[p].token \in 1..issued
        /\ auth[p].token # auth[p].rejected
        /\ auth[p].didLogin => auth[p].token > auth[p].issuedAtResponse
        /\ auth[p].token <= auth[p].issuedAtResponse =>
              /\ ~auth[p].didLogin
              /\ auth[p].token = auth[p].hitToken

\* The request is about to go out again with the token of a login that
\* completed before the rejection: the other call's, stored after the
\* discard.
C40_Witness ==
    \E p \in Resending :
        /\ auth[p].token < auth[p].rejected
        /\ auth[p].token <= auth[p].issuedAtResponse
        /\ auth[p].token = auth[p].hitToken
        /\ auth[p].sends = 1

=============================================================================
